---------------------------- MODULE Spec2Model ----------------------------
(***************************************************************************)
(* HydroAnalysis: hull + hydrofoil force model and its equilibrium solver. *)
(*                                                                         *)
(* Number representation (the source computes in floating point):          *)
(*   positions pos_x, pos_z, sink, draft, span, chord ... centimetres      *)
(*   hull length and beam ............................... metres           *)
(*   rotations rot_y, trim, angle of attack ............. quarter turns    *)
(*       (np.cos / np.sin are then exact: Cos, Sin below)                  *)
(*   masses kg, forces N, speeds m/s                                       *)
(*   fractions (bow, chine) percent; end plate factor in tenths            *)
(* Divisions are integer divisions of the scaled quantities.               *)
(*                                                                         *)
(* Frame objects live in a heap (frame id -> fields) because the source    *)
(* shares them by reference: a foil's Frame keeps a reference to the Frame *)
(* object it was created with as parent.  Slots of Frame objects that no   *)
(* live object references any more are reclaimed (CPython reference        *)
(* counting).  Every Datum() instance is stateless; all are id 0.          *)
(***************************************************************************)
EXTENDS Integers, Sequences, FiniteSets, TLC

VARIABLES
    heap,     \* Frame objects: id -> [ref, pos_x, pos_z, rot_y] (or FreeSlot)
    hull,     \* the Hull object
    foils,    \* sequence of HydroFoil objects constructed so far
    analysis, \* the HydroAnalysis object: _foils (indices into foils), _mass_components
    ret,      \* the last operation: its name, exception ("none": it returned), value
    vpp,      \* a run of VPP.run_sink_vpp / run_foil_aoa_vpp in progress
    sweep,    \* a parameter sweep of src/analyses in progress
    logger    \* the Logger object: _running, _log_groups, and the log_all calls made

vars == <<heap, hull, foils, analysis, ret, vpp, sweep, logger>>

-----------------------------------------------------------------------------
(* Bounds of the model *)

MaxFoils == 1

MaxComponents == 2

HeapSize == 2 * MaxFoils + 2

\* objective evaluations of one optimizer run
MaxTrials == 2

\* samples (speeds, foil sizes, aspect ratios) of one sweep
MaxPoints == 3

\* calls of Logger.log_all
MaxLogs == 2

\* aliases of one channel group
MaxChannels == 2

-----------------------------------------------------------------------------
(* small helpers *)

Max(a, b) == IF a >= b THEN a ELSE b

Min(a, b) == IF a <= b THEN a ELSE b

Abs(a) == IF a < 0 THEN -a ELSE a

\* a / b of the scaled quantities, rounded toward zero
Quot(a, b) ==
    IF (a < 0) = (b < 0) THEN Abs(a) \div Abs(b) ELSE -(Abs(a) \div Abs(b))

-----------------------------------------------------------------------------
(* Frame.py *)

DatumId == 0

FreeSlot == [ref |-> -1, pos_x |-> 0, pos_z |-> 0, rot_y |-> 0]

Frame(ref_frame, pos_x, pos_z, rot_y) ==
    [ref |-> ref_frame, pos_x |-> pos_x, pos_z |-> pos_z, rot_y |-> rot_y]

\* np.cos and np.sin at a whole number of quarter turns
Cos(k) == CASE k % 4 = 0 -> 1
            [] k % 4 = 1 -> 0
            [] k % 4 = 2 -> -1
            [] OTHER -> 0

Sin(k) == CASE k % 4 = 0 -> 0
            [] k % 4 = 1 -> 1
            [] k % 4 = 2 -> 0
            [] OTHER -> -1

RECURSIVE rotation_in_datum(_, _)
rotation_in_datum(h, f) ==
    IF f = DatumId THEN 0
    ELSE rotation_in_datum(h, h[f].ref) + h[f].rot_y

vector_to_frame(h, self, x, z, frame) ==
    LET rot_y_rel == rotation_in_datum(h, self) - rotation_in_datum(h, frame)
    IN  << x * Cos(rot_y_rel) + z * Sin(rot_y_rel),
           (-x) * Sin(rot_y_rel) + z * Cos(rot_y_rel) >>

\* vector_from_frame with the signs of vector_to_frame
vector_from_frame_as_to(h, self, x, z, frame) == vector_to_frame(h, self, x, z, frame)

vector_from_frame(h, self, x, z, frame) ==
    LET rot_y_rel == rotation_in_datum(h, self) - rotation_in_datum(h, frame)
    IN  << x * Cos(rot_y_rel) - z * Sin(rot_y_rel),
           x * Sin(rot_y_rel) + z * Cos(rot_y_rel) >>

RECURSIVE origin_in_datum(_, _)
origin_in_datum(h, f) ==
    IF f = DatumId THEN <<0, 0>>
    ELSE LET ref_D == origin_in_datum(h, h[f].ref)
             dpos_D == vector_to_frame(h, h[f].ref, h[f].pos_x, h[f].pos_z, DatumId)
         IN  << ref_D[1] + dpos_D[1], ref_D[2] + dpos_D[2] >>

location(h, f) == << h[f].pos_x, h[f].pos_z, h[f].rot_y >>

(* object allocation and reclamation *)

FreeIds(h) == {i \in 1..HeapSize : h[i] = FreeSlot}

NewId(h) == CHOOSE i \in FreeIds(h) : \A j \in FreeIds(h) : i <= j

RECURSIVE Chain(_, _)
Chain(h, f) == IF f = DatumId THEN {} ELSE {f} \cup Chain(h, h[f].ref)

\* only the objects the hull and the foils hold themselves
held_only(h, roots) == roots

Live(h, roots) == UNION {Chain(h, r) : r \in roots}

Reclaim(h, roots) ==
    [i \in 1..HeapSize |-> IF i \in Live(h, roots) THEN h[i] ELSE FreeSlot]

-----------------------------------------------------------------------------
(* constants.py, utils.py *)

WATER_DENSITY == 1026

\* x * GRAVITY, GRAVITY = 9.8066, without leaving 32 bits
TimesGravity(x) ==
    LET a == Abs(x)
        p == (a \div 10000) * 98066 + ((a % 10000) * 98066) \div 10000
    IN  IF x < 0 THEN -p ELSE p

RECURSIVE SqrtBetween(_, _, _)
SqrtBetween(x, lo, hi) ==
    IF lo >= hi THEN lo
    ELSE LET mid == (lo + hi + 1) \div 2
         IN  IF mid * mid <= x THEN SqrtBetween(x, mid, hi)
             ELSE SqrtBetween(x, lo, mid - 1)

\* np.sqrt, rounded down
Sqrt(x) == SqrtBetween(x, 0, Min(x, 46340))

\* The root scipy's newton returns for the Schoenherr equation, in 1e-4: the
\* iteration is not expressible in integers, so the caller takes any of these.
SchoenherrRoots == {15, 20}

-----------------------------------------------------------------------------
(* Hull.py *)

\* Hull.__init__ : the object right after construction (fractions already validated)
Hull(length, beam, height, bow_fraction, chine_fraction, frame) ==
    [ length |-> length, beam |-> beam, height |-> height,
      bow_fraction |-> bow_fraction, chine_fraction |-> chine_fraction,
      frame |-> frame,
      v_depth |-> (chine_fraction * height) \div 100,
      cd_skin_friction |-> 0, friction_drag_N |-> 0, wave_drag_N |-> 0,
      drag_N |-> 0, buoyancy_N |-> 0, wetted_area |-> 0,
      displaced_volume |-> 0, draft |-> 0, Cp |-> 0, Cwp |-> 0, Cm |-> 0 ]

\* a test of a fraction that also rejects 0 and 1
out_of_range_or_end(fraction) == fraction >= 100 \/ fraction <= 0

\* the test of chine_fraction and of bow_fraction in Hull.__init__ [percent]
out_of_range(fraction) == fraction > 100 \/ fraction < 0

\* Hull.__init__(length, beam, height, bow_fraction, chine_fraction):
\* <<object, exception>>
hull_init(length, beam, height, bow_fraction, chine_fraction, frame) ==
    IF out_of_range(chine_fraction)
    THEN <<Hull(length, beam, height, bow_fraction, chine_fraction, frame), "ValueError">>
    ELSE IF out_of_range(bow_fraction)
    THEN <<Hull(length, beam, height, bow_fraction, chine_fraction, frame), "ValueError">>
    ELSE <<Hull(length, beam, height, bow_fraction, chine_fraction, frame), "none">>

\* Hull._waterplane_beam [cm]
waterplane_beam(hl) ==
    IF hl.draft >= hl.v_depth THEN hl.beam * 100
    ELSE (hl.beam * 100 * hl.draft) \div hl.v_depth

\* Hull._submerged_cross_section [cm^2]
submerged_cross_section(hl) ==
    LET wp_beam == waterplane_beam(hl)
        v == (wp_beam * Min(hl.draft, hl.v_depth)) \div 2
    IN  IF hl.draft > hl.v_depth
        THEN v + (hl.draft - hl.v_depth) * hl.beam * 100
        ELSE v

\* Hull._waterplane_area [cm * m]
waterplane_area(hl) ==
    (waterplane_beam(hl) * hl.length * (200 - hl.bow_fraction)) \div 200

\* Hull._compute_wetted_surface_area [cm * m]
wetted_surface_area(hl) ==
    LET draft == hl.draft
        wp_beam == waterplane_beam(hl)
        v_angled_length == Sqrt(Min(hl.v_depth, draft) * Min(hl.v_depth, draft)
                                + (wp_beam \div 2) * (wp_beam \div 2))
        v_area == (2 * v_angled_length * hl.length * (200 - hl.bow_fraction)) \div 200
        bow_cm == hl.length * hl.bow_fraction
        perimeter_bow == 2 * Sqrt(bow_cm * bow_cm + (hl.beam * 50) * (hl.beam * 50))
        perimeter == perimeter_bow + 2 * hl.length * (100 - hl.bow_fraction)
                     + hl.beam * 100
    IN  IF Abs(draft) = 0 THEN 0
        ELSE IF draft > hl.v_depth
             THEN v_area + (perimeter * (draft - hl.v_depth)) \div 100
             ELSE v_area

\* Hull._compute_displaced_volume [10 litres]
displaced_volume(hl) ==
    (((submerged_cross_section(hl) * hl.length) \div 200) * (200 - hl.bow_fraction)) \div 100

\* Hull._compute_buoyancy [N]
buoyancy(hl) == TimesGravity((hl.displaced_volume * WATER_DENSITY) \div 100)

\* Hull._compute_drag, skin friction part [N]; cf in 1e-4
friction_drag(hl, cf, speed) ==
    ((((hl.wetted_area \div 100) * WATER_DENSITY * speed * speed) \div 2) \div 10000) * cf

\* What Hull._compute_wave_resistance stores for a wetted hull [N]: the
\* Holtrop-Mennen regression (exponentials, fractional powers) is not
\* expressible in integers, so the caller takes any of these.
WaveResistances == {1000, 50000}

\* a wrench: ForceMoment(fx, fz, my)
ForceMoment(fx, fz, my) == <<fx, fz, my>>

\* HydroAnalysis.MassComponent
MassComponent(mass, pos_x, pos_z) == <<mass, pos_x, pos_z>>

NoValue == <<>>

Returned(op, val) == [op |-> op, exc |-> "none", val |-> val]

Raised(op, exc) == [op |-> op, exc |-> exc, val |-> NoValue]

\* ret: the call (op, args), and its outcome
Called(op, args, outcome) ==
    [op |-> op, args |-> args, exc |-> outcome.exc, val |-> outcome.val]

\* Hull.set_state without the max(0, .) of the draft
hull_set_state_unclamped(h, hl, id) ==
    [hl EXCEPT !.frame = id, !.draft = (-1) * origin_in_datum(h, id)[2]]

\* Hull.set_state: the hull object after the call, its new Frame at id
hull_set_state(h, hl, id) ==
    [hl EXCEPT !.frame = id,
               !.draft = Max(0, (-1) * origin_in_datum(h, id)[2])]

(* Hull._update_geometric_parameters, one definition per assignment, in the
   order of the source.  Cp, Cm, Cwp in percent.  The first zero divisor ends
   the call with ZeroDivisionError (the hull's dimensions and draft are Python
   numbers), the fields assigned before it kept.
   update_geometric_parameters is <<hull object, exception>>. *)

set_wetted_area(hl) == [hl EXCEPT !.wetted_area = wetted_surface_area(hl)]

set_displaced_volume(hl) == [hl EXCEPT !.displaced_volume = displaced_volume(hl)]

set_Cp(hl) ==
    [hl EXCEPT !.Cp = (hl.displaced_volume * 100)
                      \div Max(1, (submerged_cross_section(hl) * hl.length) \div 100)]

set_Cm(hl) == [hl EXCEPT !.Cm = submerged_cross_section(hl) \div (hl.beam * hl.draft)]

set_Cwp(hl) == [hl EXCEPT !.Cwp = waterplane_area(hl) \div (hl.beam * hl.length)]

geo_from_Cwp(hl) ==
    IF hl.beam * hl.length = 0 THEN <<hl, "ZeroDivisionError">>
    ELSE <<set_Cwp(hl), "none">>

geo_from_Cm(hl) ==
    IF hl.beam * hl.draft = 0 THEN <<hl, "ZeroDivisionError">>
    ELSE geo_from_Cwp(set_Cm(hl))

geo_from_Cp(hl) ==
    IF submerged_cross_section(hl) * hl.length = 0 THEN <<hl, "ZeroDivisionError">>
    ELSE geo_from_Cm(set_Cp(hl))

update_geometric_parameters(hl) ==
    geo_from_Cp(set_displaced_volume(set_wetted_area(hl)))

\* Hull._compute_drag: cf is what _skin_friction_coeff returned, wave what
\* _compute_wave_resistance stored
compute_drag(hl, cf, wave, speed) ==
    [hl EXCEPT !.cd_skin_friction = cf,
               !.friction_drag_N = friction_drag(hl, cf, speed),
               !.wave_drag_N = wave,
               !.drag_N = friction_drag(hl, cf, speed) + wave]

\* a buoyancy added to the one stored before
accumulate_buoyancy(hl) == [hl EXCEPT !.buoyancy_N = @ + buoyancy(hl)]

\* Hull._compute_buoyancy
compute_buoyancy(hl) == [hl EXCEPT !.buoyancy_N = buoyancy(hl)]

\* the return statement of Hull.force_moment
hull_wrench(hl) ==
    <<hl, Returned("Hull.force_moment", ForceMoment(-hl.drag_N, hl.buoyancy_N, 0))>>

\* Hull.force_moment after _update_geometric_parameters gave g
hull_force_moment_from(g, cf, wave, speed) ==
    IF g[2] # "none" THEN <<g[1], Raised("Hull.force_moment", g[2])>>
    ELSE hull_wrench(compute_buoyancy(compute_drag(g[1], cf, wave, speed)))

\* Hull.force_moment: <<hull object after the call, what it returned or raised>>
hull_force_moment(hl, cf, wave, speed) ==
    hull_force_moment_from(update_geometric_parameters(hl), cf, wave, speed)

-----------------------------------------------------------------------------
(* HydroFoil.py *)

\* HydroFoil._compute_derived_geo, one definition per assignment.
\* area_ref [cm^2], aspect ratios in percent
set_area_ref(f) == [f EXCEPT !.area_ref = f.span * f.chord]

set_aspect_ratio(f) == [f EXCEPT !.aspect_ratio = Quot(f.span * f.span * 100, f.area_ref)]

set_aspect_ratio_effective(f) ==
    [f EXCEPT !.aspect_ratio_effective = Quot(f.aspect_ratio * f.end_plate_factor, 10)]

geo_from_aspect_ratio(f) ==
    IF f.area_ref = 0 THEN <<f, "ZeroDivisionError">>
    ELSE <<set_aspect_ratio_effective(set_aspect_ratio(f)), "none">>

\* <<foil object, exception>>
compute_derived_geo(f) == geo_from_aspect_ratio(set_area_ref(f))

\* the end plate factor HydroFoil.__init__ stores [tenths]
stored_end_plate_factor(end_plate_factor) == Max(20, Min(10, end_plate_factor))

\* HydroFoil.__init__ up to the call of _compute_derived_geo
\* (oswald_efficiency in tenths, thickness_ratio in percent)
foil_fields(span, chord, frame, thickness_ratio, end_plate_factor) ==
    [ span |-> span, chord |-> chord, frame |-> frame,
      oswald_efficiency |-> 7, thickness_ratio |-> thickness_ratio,
      end_plate_factor |-> stored_end_plate_factor(end_plate_factor),
      lift_N |-> 0, drag_N |-> 0, my_Nm |-> 0, angle_of_attack |-> 0,
      cl |-> 0, cd_induced |-> 0, cd_skin_friction |-> 0, fx_N |-> 0, fz_N |-> 0,
      bending_moment_Nm |-> 0, area_ref |-> 0, aspect_ratio |-> 0,
      aspect_ratio_effective |-> 0, thickness_req |-> 0, thickness_nan |-> FALSE,
      load_density_Pa |-> 0 ]

\* HydroFoil.__init__: <<foil object, exception>>; no validation of span or chord
HydroFoil(span, chord, frame, thickness_ratio, end_plate_factor) ==
    compute_derived_geo(foil_fields(span, chord, frame, thickness_ratio, end_plate_factor))

\* a resize that stores the span before it looks at the chord
resize_span_first(f, span, chord, thickness_ratio) ==
    IF span <= 0 THEN <<f, "ValueError">>
    ELSE IF chord <= 0 THEN <<[f EXCEPT !.span = span], "ValueError">>
    ELSE compute_derived_geo([f EXCEPT !.span = span, !.chord = chord,
                                       !.thickness_ratio = thickness_ratio])

\* HydroFoil.resize: <<foil object, exception>>
resize(f, span, chord, thickness_ratio) ==
    IF span <= 0 THEN <<f, "ValueError">>
    ELSE IF chord <= 0 THEN <<f, "ValueError">>
    ELSE compute_derived_geo([f EXCEPT !.span = span, !.chord = chord,
                                       !.thickness_ratio = thickness_ratio])

\* a new Frame object on the foil's current frame
set_location_frame_on_current(h, f, pos_x, pos_z, rot_y) ==
    Frame(f.frame, pos_x, pos_z, rot_y)

\* HydroFoil.set_location: the new Frame object, on the parent of the current one
set_location_frame(h, f, pos_x, pos_z, rot_y) ==
    Frame(h[f.frame].ref, pos_x, pos_z, rot_y)

\* HydroFoil.get_location
get_location(h, f) == location(h, f.frame)

\* 0.5 * rho * A * v^2 [N]
dynamic_force(f, speed) ==
    (WATER_DENSITY * (f.area_ref \div 100) * speed * speed) \div 200

\* dCl_dalpha of HydroFoil._lift_coefficient [1e-3]
lift_slope(f) ==
    Quot(6283 * f.aspect_ratio_effective * f.oswald_efficiency,
         f.aspect_ratio_effective * f.oswald_efficiency + 2000)

\* HydroFoil._lift_coefficient [1e-2]; angle in quarter turns (1571 mrad each)
lift_coefficient(f, angle_of_attack) ==
    Quot(lift_slope(f) * 1571 * angle_of_attack, 10000)

\* HydroFoil._compute_drag: induced drag coefficient of lift coefficient cl [1e-2]
induced_drag_coefficient(f, cl) ==
    Quot(cl * cl * 100,
         Quot(3142 * f.aspect_ratio_effective * f.oswald_efficiency, 100))

\* a submersion factor that reaches 1 at a depth of 1 m
submersion_force_scaling_metre(h, f) ==
    Min(10, Max(0, Quot((-1) * origin_in_datum(h, f.frame)[2], 10)))

\* the factor np.clip(-10 * origin z, 0, 1) of HydroFoil.force_moment [tenths]
submersion_force_scaling(h, f) ==
    Min(10, Max(0, (-1) * origin_in_datum(h, f.frame)[2]))

\* HydroFoil._compute_lift
compute_lift(f, q) ==
    [f EXCEPT !.cl = lift_coefficient(f, f.angle_of_attack),
              !.lift_N = Quot(lift_coefficient(f, f.angle_of_attack) * q, 100)]

\* HydroFoil._compute_drag; cf is the skin friction coefficient that
\* schoenherr_drag_coeff returned [1e-4]
compute_foil_drag(f, cf, q) ==
    [f EXCEPT !.cd_skin_friction = cf,
              !.cd_induced = induced_drag_coefficient(f, f.cl),
              !.drag_N = Quot(induced_drag_coefficient(f, f.cl) * q, 100)
                         + Quot(cf * q, 10000)]

\* self._lift_N *= submersion_force_scaling; self._drag_N *= ...
scale_forces(f, scaling) ==
    [f EXCEPT !.lift_N = Quot(f.lift_N * scaling, 10),
              !.drag_N = Quot(f.drag_N * scaling, 10)]

\* fx and fz left on the axes of aero_frame (x = lift, z = drag)
keep_aero_axes(f, rot_y_rel) == [f EXCEPT !.fx_N = f.lift_N, !.fz_N = f.drag_N]

\* self._fx_N, self._fz_N = aero_frame.vector_to_frame(lift, drag, self.frame),
\* rot_y_rel the rotation of aero_frame against the foil frame
rotate_forces(f, rot_y_rel) ==
    [f EXCEPT !.fx_N = f.lift_N * Cos(rot_y_rel) + f.drag_N * Sin(rot_y_rel),
              !.fz_N = (-f.lift_N) * Sin(rot_y_rel) + f.drag_N * Cos(rot_y_rel)]

\* HydroFoil._compute_moment: cm = pi * aoa / 2 [1e-2]
compute_moment(f, q) ==
    [f EXCEPT !.my_Nm =
        Quot(Quot(Quot(3142 * 1571 * f.angle_of_attack, 20000) * f.chord, 100) * q, 100)]

\* a check that reports risk only above 60 kPa
cavitation_check_above(f) == f.load_density_Pa <= 60000

\* HydroFoil.cavitation_check: the value returned; no statement of it raises
cavitation_check(f) == f.load_density_Pa < 60000

\* HydroFoil._foil_loading_cavitation_check
foil_loading_cavitation_check(f) ==
    [f EXCEPT !.load_density_Pa = Quot(f.fz_N * 100, f.area_ref \div 100)]

\* HydroFoil.force_moment with the frame's rotation in Datum and the submersion
\* scaling evaluated.  aero_frame = Frame(self.frame, 0, 0, aoa - pi / 2) is a
\* local, its rotation in Datum rot + (aoa - 1).
foil_force_moment_at(f, rot, scaling, cf, q) ==
    foil_loading_cavitation_check(
      compute_moment(
        rotate_forces(
          scale_forces(
            compute_foil_drag(
              compute_lift([f EXCEPT !.angle_of_attack = -rot], q), cf, q),
            scaling),
          (rot + ((-rot) - 1)) - rot),
        q))

\* HydroFoil.force_moment on a foil whose frame is in heap h: the foil object
\* after the call; the wrench it returns is foil_wrench of that.  The channel
\* _LD (lift / drag) is written and never read, and is left out.
foil_force_moment(h, f, cf, speed) ==
    foil_force_moment_at(f, rotation_in_datum(h, f.frame),
                         submersion_force_scaling(h, f), cf, dynamic_force(f, speed))

foil_wrench(f) == ForceMoment(f.fx_N, f.fz_N, f.my_Nm)

\* Material.Steel: density [kg/m^3], yield strength [MPa]
Steel == [density |-> 7800, yield_strength |-> 400]

(* HydroFoil.structural_mass, with fos, share_frac and scaling_factor in
   tenths.  Bending moment [N m], spar height and required thickness [mm].
   Ixx_req = t * k with t = bending * spar_height / yield_strength and
   k = 5 * fos * (10 - share_frac) [mm^4]; the thickness is NaN when the
   radicand spar_height^4 - 12 * Ixx_req is negative. *)

spar_height(f) == (f.thickness_ratio * f.chord) \div 10

norm(fx, fz) == 100 * Sqrt(Quot(fx, 100) * Quot(fx, 100) + Quot(fz, 100) * Quot(fz, 100))

set_bending_moment(f) ==
    [f EXCEPT !.bending_moment_Nm = (norm(f.fx_N, f.fz_N) * f.span) \div 200]

Ixx_t(f, material) == (f.bending_moment_Nm * spar_height(f)) \div material.yield_strength

Pow4(x) == x * x * x * x

thickness_is_nan(f, material, k) == Ixx_t(f, material) > (Pow4(spar_height(f)) \div 12) \div k

set_thickness_req(f, material, k) ==
    IF thickness_is_nan(f, material, k)
    THEN [f EXCEPT !.thickness_nan = TRUE, !.thickness_req = 0]
    ELSE [f EXCEPT !.thickness_nan = FALSE,
                   !.thickness_req =
                       spar_height(f)
                       - Sqrt(Sqrt(Pow4(spar_height(f)) - 12 * Ixx_t(f, material) * k))]

mass_of(f, material, scaling_factor) ==
    (((((f.thickness_req * spar_height(f) * 4 * f.span) \div 1000)
        * material.density) \div 100000) * scaling_factor) \div 10

\* from the NaN test to the end: [heap, foil, exc, val]
structural_mass_from_thickness(h, f, id2, loc, material, scaling_factor) ==
    IF f.thickness_nan
    THEN [heap |-> h, foil |-> f, exc |-> "FoilError", val |-> NoValue]
    ELSE [heap |-> [h EXCEPT ![id2] = set_location_frame(h, f, loc[1], loc[2], loc[3])],
          foil |-> [f EXCEPT !.frame = id2],
          exc |-> "none",
          val |-> MassComponent(mass_of(f, material, scaling_factor),
                                Quot(-f.chord, 4), 0)]

\* from the force_moment call on: h and f are the heap and the foil after
\* self.set_location(pos_x, pos_z, -max_angle_of_attack)
structural_mass_from_force(h, f, id2, loc, max_speed, material, fos, scaling_factor, share_frac, cf) ==
    structural_mass_from_thickness(
        h,
        set_thickness_req(set_bending_moment(foil_force_moment(h, f, cf, max_speed)),
                          material, 5 * fos * (10 - share_frac)),
        id2, loc, material, scaling_factor)

\* HydroFoil.structural_mass.  others: the frames other objects hold; id1, id2:
\* the Frame objects the two set_location calls create (the first call drops
\* the last reference to the foil's previous Frame).
structural_mass(h, f, others, max_angle_of_attack, max_speed, material, fos, scaling_factor, share_frac, cf) ==
    LET loc == get_location(h, f)
        id1 == NewId(h)
        h1 == [h EXCEPT ![id1] = set_location_frame(h, f, loc[1], loc[2],
                                                    -max_angle_of_attack)]
        id2 == NewId(Reclaim(h1, others \cup {id1}))
    IN  structural_mass_from_force(h1, [f EXCEPT !.frame = id1], id2, loc, max_speed,
                                   material, fos, scaling_factor, share_frac, cf)

-----------------------------------------------------------------------------
(* HydroAnalysis.py *)

RECURSIVE SumMass(_)
SumMass(components) ==
    IF components = <<>> THEN 0
    ELSE Head(components)[1] + SumMass(Tail(components))

\* HydroAnalysis._gravitational_forces
gravity_in(h, hl, weight) == vector_from_frame(h, hl.frame, 0, -weight, DatumId)

gravitational_forces(h, hl, an) ==
    ForceMoment(gravity_in(h, hl, TimesGravity(SumMass(an.mass_components)))[1],
                gravity_in(h, hl, TimesGravity(SumMass(an.mass_components)))[2], 0)

\* HydroAnalysis._foil_location_on_hull
foil_location_on_hull(h, hl, f) ==
    vector_from_frame(h, hl.frame,
                      origin_in_datum(h, f.frame)[1] - origin_in_datum(h, hl.frame)[1],
                      origin_in_datum(h, f.frame)[2] - origin_in_datum(h, hl.frame)[2],
                      DatumId)

\* mass_pos_hull without the foil's position on the hull
mass_pos_foil(rotated, foil_pos_hull) == rotated

\* mass_pos_hull of HydroAnalysis.add_foil
mass_pos_hull(rotated, foil_pos_hull) ==
    <<rotated[1] + foil_pos_hull[1], rotated[2] + foil_pos_hull[2]>>

\* HydroAnalysis.add_foil: the analysis object after adding foil number i
add_foil(h, hl, fs, an, i, foil_mass) ==
    [an EXCEPT !.foils = Append(an.foils, i),
               !.mass_components =
                   Append(an.mass_components,
                          MassComponent(
                              foil_mass[1],
                              mass_pos_hull(
                                  vector_from_frame(h, hl.frame, foil_mass[2],
                                                    foil_mass[3], fs[i].frame),
                                  foil_location_on_hull(h, hl, fs[i]))[1],
                              mass_pos_hull(
                                  vector_from_frame(h, hl.frame, foil_mass[2],
                                                    foil_mass[3], fs[i].frame),
                                  foil_location_on_hull(h, hl, fs[i]))[2]))]

\* ForceMoment.add
add(fm, other) == ForceMoment(fm[1] + other[1], fm[2] + other[2], fm[3] + other[3])

\* the wrench of foil f as the foil returned it
wrench_in_foil(h, hl, f) == ForceMoment(f.fx_N, f.fz_N, f.my_Nm)

\* fm_foil_B: the wrench of foil f with its force rotated into the hull frame
wrench_in_hull(h, hl, f) ==
    ForceMoment(vector_from_frame(h, hl.frame, f.fx_N, f.fz_N, f.frame)[1],
                vector_from_frame(h, hl.frame, f.fx_N, f.fz_N, f.frame)[2],
                f.my_Nm)

\* the loop of HydroAnalysis.force_moment_body over self._foils, from entry k:
\* <<foil objects, accumulated wrench>>
RECURSIVE add_foil_wrenches(_, _, _, _, _, _, _, _)
add_foil_wrenches(h, hl, fs, an, k, fm_body, cf, speed) ==
    IF k > Len(an.foils) THEN <<fs, fm_body>>
    ELSE add_foil_wrenches(
             h, hl,
             [fs EXCEPT ![an.foils[k]] = foil_force_moment(h, fs[an.foils[k]], cf, speed)],
             an, k + 1,
             add(fm_body,
                 wrench_in_hull(h, hl, foil_force_moment(h, fs[an.foils[k]], cf, speed))),
             cf, speed)

body_result(hl, r) == [hull |-> hl, foils |-> r[1], exc |-> "none", val |-> r[2]]

\* HydroAnalysis.force_moment_body after hull.force_moment gave hf
force_moment_body_from(h, fs, an, g, hf, cf_foil, speed) ==
    IF hf[2].exc # "none"
    THEN [hull |-> hf[1], foils |-> fs, exc |-> hf[2].exc, val |-> NoValue]
    ELSE body_result(hf[1], add_foil_wrenches(h, hf[1], fs, an, 1, add(g, hf[2].val),
                                              cf_foil, speed))

\* HydroAnalysis.force_moment_body: [hull, foils, exc, val]
force_moment_body(h, hl, fs, an, cf_hull, wave, cf_foil, speed) ==
    force_moment_body_from(h, fs, an, gravitational_forces(h, hl, an),
                           hull_force_moment(hl, cf_hull, wave, speed), cf_foil, speed)

\* the body wrench, its force left in hull coordinates
waterplane_as_body(h, b) == b

\* the rotation of the body wrench b.val into Datum
waterplane_from(h, b) ==
    IF b.exc # "none" THEN b
    ELSE [b EXCEPT !.val =
             ForceMoment(vector_to_frame(h, b.hull.frame, b.val[1], b.val[2], DatumId)[1],
                         vector_to_frame(h, b.hull.frame, b.val[1], b.val[2], DatumId)[2],
                         b.val[3])]

\* HydroAnalysis.force_moment_waterplane: [hull, foils, exc, val]
force_moment_waterplane(h, hl, fs, an, cf_hull, wave, cf_foil, speed) ==
    waterplane_from(h, force_moment_body(h, hl, fs, an, cf_hull, wave, cf_foil, speed))

-----------------------------------------------------------------------------
(* VPP.py.  scipy's optimize.minimize(method='SLSQP', bounds=...) is a library
   call: it evaluates the objective at the start point clipped to the bounds
   and at further points within the bounds, and ends with res.success and
   res.x, one of the points it evaluated.  With res.success, res.x is a minimum under the
   bounds: the cost there is zero within the tolerance ftol, or res.x is one
   of the bounds and no point next to it within the bounds has a lower cost. *)

\* np.clip of the start point to the bounds <<lb, ub>>
clip(x, bounds) == Max(bounds[1], Min(bounds[2], x))

\* the points of grid next to x
Neighbours(grid, x) ==
    {y \in grid : y # x /\ ~ \E z \in grid : (x < z /\ z < y) \/ (y < z /\ z < x)}

\* a cost of objective_sink [1e-6] that is zero within SLSQP's ftol = 1e-6
WithinTolerance(cost) == cost <= 1

\* optimize.Bounds([-15], [-0.01]) of run_sink_vpp [cm]
sink_bounds == <<-1500, -1>>

\* sinks within sink_bounds the optimizer evaluates
SinkGrid == {-1500, -800, -150, -1}

\* the trim objective_sink sets
objective_trim == 0

\* cost = (fz / 1e7) ** 2 of objective_sink [1e-6]
sink_cost(fz) == Quot(fz, 10000) * Quot(fz, 10000)

\* objective_sink from force_moment_waterplane on: [heap, hull, foils, exc, val]
objective_sink_from(h, w) ==
    [heap |-> h, hull |-> w.hull, foils |-> w.foils, exc |-> w.exc,
     val |-> IF w.exc = "none" THEN <<sink_cost(w.val[2]), w.val[2]>> ELSE NoValue]

\* objective_sink after hydro_model.set_state(x[0], 0), the hull's new Frame in h
objective_sink_at(h, hl, fs, an, cf_hull, wave, cf_foil, speed) ==
    objective_sink_from(h, force_moment_waterplane(h, hl, fs, an, cf_hull, wave,
                                                   cf_foil, speed))

\* the heap after Frame(Datum(), 0, x, trim) was created at id
with_hull_frame(h, id, x, trim) == [h EXCEPT ![id] = Frame(DatumId, 0, x, trim)]

\* objective_sink(x, hydro_model, speed): the model after the call, and
\* val = <<cost, fz>>
objective_sink(h, hl, fs, an, x, cf_hull, wave, cf_foil, speed) ==
    objective_sink_at(with_hull_frame(h, NewId(h), x, objective_trim),
                      hull_set_state(with_hull_frame(h, NewId(h), x, objective_trim),
                                     hl, NewId(h)),
                      fs, an, cf_hull, wave, cf_foil, speed)

\* run_sink_vpp without the test of res.success
run_sink_vpp_unchecked(res) == Returned("run_sink_vpp", <<res.x>>)

\* run_sink_vpp after optimize.minimize gave res = [success, x]
run_sink_vpp(res) ==
    IF ~res.success THEN Raised("run_sink_vpp", "VPPSolverError")
    ELSE Returned("run_sink_vpp", <<res.x>>)

\* optimize.Bounds([np.deg2rad(aoa_lb)], [np.deg2rad(aoa_ub)]) of
\* run_foil_aoa_vpp called with aoa_lb = -90, aoa_ub = 90 [quarter turns]
aoa_bounds == <<-1, 1>>

\* angles within aoa_bounds the optimizer evaluates
AoaGrid == {-1, 0, 1}

\* lift = fx * np.sin(x[0]) + fz * np.cos(x[0]) of objective_foil_aoa
lift_at(f, x) == f.fx_N * Sin(x) + f.fz_N * Cos(x)

\* cost = abs(lift - lift_desired) / 1e3 of objective_foil_aoa [1e-3 kN]
aoa_cost(f, x, lift_desired) == Abs(lift_at(f, x) - lift_desired)

\* objective_foil_aoa from the force_moment call on: [heap, foil, exc, val]
objective_foil_aoa_from(h, f, x, lift_desired) ==
    [heap |-> h, foil |-> f, exc |-> "none", val |-> <<aoa_cost(f, x, lift_desired)>>]

\* the heap after hydrofoil.set_location(px, pz, -x[0]) created the Frame at id
with_foil_frame(h, f, id, x) ==
    [h EXCEPT ![id] = set_location_frame(h, f, get_location(h, f)[1],
                                         get_location(h, f)[2], -x)]

\* objective_foil_aoa(x, hydrofoil, speed, lift_desired): the heap and the foil
\* after the call, and val = <<cost>>
objective_foil_aoa(h, f, x, cf, speed, lift_desired) ==
    objective_foil_aoa_from(
        with_foil_frame(h, f, NewId(h), x),
        foil_force_moment(with_foil_frame(h, f, NewId(h), x),
                          [f EXCEPT !.frame = NewId(h)], cf, speed),
        x, lift_desired)

\* a test of the final cost that also rejects a cost of exactly 0.1
reaches_tolerance(cost) == cost >= 100

\* the test cost > 0.1 of run_foil_aoa_vpp [cost in 1e-3 kN]
exceeds_tolerance(cost) == cost > 100

\* run_foil_aoa_vpp after optimize.minimize gave res = [success, x] and, for a
\* success, objective_foil_aoa(res.x, ...) gave cost
run_foil_aoa_vpp(res, cost) ==
    IF ~res.success THEN Raised("run_foil_aoa_vpp", "VPPSolverError")
    ELSE IF exceeds_tolerance(cost) THEN Raised("run_foil_aoa_vpp", "VPPSolverError")
    ELSE Returned("run_foil_aoa_vpp", <<res.x>>)

-----------------------------------------------------------------------------
(* The objects and the calls a driver script makes on them *)

Sinks == {-150, -5, 0, 40}

Trims == {0, 1}

\* sinks of a hull that carries foils
MountedSinks == {-150}

FoilXs == {100}

\* below the hull's origin, and at the water surface for the new hull
FoilZs == {-50, 100}

FoilRots == {0, -1}

Spans == {200}

Chords == {100}

ThicknessRatios == {10}

ResizedThicknessRatios == {10, 20}

EndPlateFactors == {12}

\* arguments a caller may pass, valid or not
AnySpans == {-100, 0, 200, 400}

AnyChords == {-50, 0, 100}

AnyEndPlateFactors == {5, 10, 12, 20, 25}

Speeds == {5, 10}

MaxAngles == {0, 1}

Masses == {1000}

\* masses of a vessel [kg]: one the hull carries at a sink of -1.5 m, one
\* heavier than the water the hull displaces at the deepest sink
VesselMasses == {359017, 5000000}

\* lift targets of run_foil_aoa_vpp [N]
LiftTargets == {0, 100, 101}

\* speeds of run_foil_aoa_vpp [m/s]
AoaSpeeds == {10}

\* start points x0 of run_foil_aoa_vpp [quarter turns]
AoaGuesses == {0, 2}

\* angles the optimizer ends with in a sweep, within the bounds of each sweep [mrad]
SweepAngles == {-87, 35, 87}

\* final costs of run_foil_aoa_vpp in a sweep [1e-3 kN]
SweepCosts == {0, 101}

\* what optimize.minimize ends with in a sweep
SweepResults == [success : BOOLEAN, x : SweepAngles]

\* what structural_mass ends with in a sweep
MassOutcomes ==
    {Returned("structural_mass", <<mass>>) : mass \in Masses}
        \cup {Raised("structural_mass", "FoilError")}

\* vectors (x, z) handed to vector_to_frame and vector_from_frame
Vectors == {<<100, 0>>, <<30, -20>>}

\* bow and chine fractions a caller may pass, valid or not [percent]
AnyFractions == {-10, 0, 20, 100, 110}

\* foil positions on the new hull, whose origin is 100 cm under water: deep,
\* less than 10 cm deep, at the surface and above it [cm]
SubmersionZs == {-50, 93, 95, 100, 120}

\* <<span, chord>> of loaded foils [cm]: at 10 m/s and a quarter turn, the
\* second carries 60 kPa at a depth of 8 cm and more below
LoadedPlanforms == {<<200, 100>>, <<340, 28>>}

\* positions of loaded foils on the new hull: deep, 8 cm deep, at the surface [cm]
LoadedZs == {-50, 92, 100}

LoadedRots == {-1, 0, 1}

\* sinks of the hull before a solver is called: afloat, and lifted so far
\* that a foil 0.5 m under the hull's origin is at the water surface [cm]
PriorSinks == {-150, 50}

-----------------------------------------------------------------------------
(* Logger.py. A dict is the sequence of its items [key, val] in insertion
   order; the logged object is the Hull. *)

Keys(d) == {d[k].key : k \in DOMAIN d}

Get(d, key) == d[CHOOSE k \in DOMAIN d : d[k].key = key].val

\* d[key] = val
Put(d, key, val) ==
    IF key \in Keys(d)
    THEN [k \in DOMAIN d |-> IF d[k].key = key THEN [key |-> key, val |-> val] ELSE d[k]]
    ELSE Append(d, [key |-> key, val |-> val])

None == "None"

\* the attributes of a Hull the channels of the model name
HullAttributes == {"_draft", "_buoyancy_N"}

hasattr(obj, channel_name) == channel_name \in HullAttributes

getattr(hl, channel_name) == IF channel_name = "_draft" THEN hl.draft ELSE hl.buoyancy_N

\* Logger.ChannelGroup.__init__
ChannelGroup(name, obj) == [name |-> name, obj |-> obj, channels |-> <<>>, aliases |-> <<>>]

\* Logger.ChannelGroup.add_channel: <<group, exception>>
add_channel(g, channel_name, alias) ==
    LET a == IF alias = None THEN channel_name ELSE alias
        g1 == [g EXCEPT !.aliases = Put(@, a, channel_name)]
    IN  IF a \in Keys(g1.channels) THEN <<g1, "KeyError">>
        ELSE IF ~hasattr(g1.obj, channel_name) THEN <<g1, "KeyError">>
        ELSE <<[g1 EXCEPT !.channels = Put(@, a, <<>>)], "none">>

\* Logger.ChannelGroup.log_channels from the k-th channel on: <<group, exception>>
RECURSIVE log_channels_from(_, _, _)
log_channels_from(g, hl, k) ==
    IF k > Len(g.channels) THEN <<g, "none">>
    ELSE LET alias == g.channels[k].key
         IN  IF ~hasattr(g.obj, Get(g.aliases, alias)) THEN <<g, "AttributeError">>
             ELSE log_channels_from(
                      [g EXCEPT !.channels[k].val = Append(@, getattr(hl, Get(g.aliases, alias)))],
                      hl, k + 1)

log_channels(g, hl) == log_channels_from(g, hl, 1)

\* Logger.__init__; log_all_calls counts the calls of log_all
Logger == [running |-> FALSE, log_groups |-> <<>>, log_all_calls |-> 0]

\* Logger.run
run(lg) == [lg EXCEPT !.running = TRUE]

\* Logger.add_group: <<logger, exception>>; the print changes nothing
add_group(lg, name, obj) ==
    IF name \in Keys(lg.log_groups) THEN <<lg, "none">>
    ELSE <<[lg EXCEPT !.log_groups = Put(@, name, ChannelGroup(name, obj))], "none">>

\* Logger.add_group2
add_group2(lg, group) ==
    IF group.name \in Keys(lg.log_groups) THEN <<lg, "KeyError">>
    ELSE <<[lg EXCEPT !.log_groups = Put(@, group.name, group)], "none">>

\* channel names that contain a period
Dotted == {"_hull._draft"}

\* Logger.add_channel_to_group
add_channel_to_group(lg, channel_name, group_name, alias) ==
    IF channel_name \in Dotted THEN <<lg, "ValueError">>
    ELSE IF group_name \notin Keys(lg.log_groups) THEN <<lg, "KeyError">>
    ELSE LET r == add_channel(Get(lg.log_groups, group_name), channel_name, alias)
         IN  <<[lg EXCEPT !.log_groups = Put(@, group_name, r[1])], r[2]>>

\* the loop of Logger.log_all from the k-th group on
RECURSIVE log_groups_from(_, _, _)
log_groups_from(lg, hl, k) ==
    IF k > Len(lg.log_groups) THEN <<lg, "none">>
    ELSE LET r == log_channels(lg.log_groups[k].val, hl)
             lg1 == [lg EXCEPT !.log_groups[k].val = r[1]]
         IN  IF r[2] # "none" THEN <<lg1, r[2]>> ELSE log_groups_from(lg1, hl, k + 1)

\* Logger.log_all
log_all(lg, hl) ==
    log_groups_from([(IF lg.running THEN lg ELSE run(lg)) EXCEPT !.log_all_calls = @ + 1], hl, 1)

\* names of channel groups
GroupNames == {"Hull", "Spare"}

\* attribute names given to add_channel_to_group: two of the Hull, one it does
\* not have, one with a period
ChannelNames == {"_draft", "_buoyancy_N", "_speed", "_hull._draft"}

Aliases == {None, "Draft_m"}

\* start points x0 of run_sink_vpp [cm]
SinkGuesses == {-150, 500}

Roots(hl, fs) == {hl.frame} \cup {fs[i].frame : i \in 1..Len(fs)}

NoCall == [op |-> "none", args |-> <<>>, exc |-> "none", val |-> NoValue]

NoAnalysis == [foils |-> <<>>, mass_components |-> <<>>]

NoRun == [pc |-> "idle"]

\* res before optimize.minimize has returned
NoResult == [success |-> FALSE, x |-> 0]

\* hull = Hull(36, 8, 3, 0.2, 0.1): its frame is Frame(Datum(), 0, -height / 3, 0)
InitObjects ==
    /\ heap = [i \in 1..HeapSize |->
                  IF i = 1 THEN Frame(DatumId, 0, -100, 0) ELSE FreeSlot]
    /\ hull = Hull(36, 8, 300, 20, 10, 1)
    /\ foils = <<>>
    /\ analysis = NoAnalysis
    /\ ret = NoCall

Init ==
    /\ InitObjects
    /\ vpp = NoRun
    /\ sweep = NoRun
    /\ logger = Logger

\* foil = HydroFoil(span, chord, Frame(hull.frame, pos_x, pos_z, rot_y), ...)
NewFoil(span, chord, pos_x, pos_z, rot_y, thickness_ratio, end_plate_factor) ==
    /\ Len(foils) < MaxFoils
    /\ LET id == NewId(heap)
           h1 == [heap EXCEPT ![id] = Frame(hull.frame, pos_x, pos_z, rot_y)]
           c == HydroFoil(span, chord, id, thickness_ratio, end_plate_factor)
           fs == IF c[2] = "none" THEN Append(foils, c[1]) ELSE foils
       IN  /\ foils' = fs
           /\ heap' = Reclaim(h1, Roots(hull, fs))
           /\ ret' = Called("HydroFoil", <<span, chord, end_plate_factor>>,
                            [exc |-> c[2], val |-> NoValue])
    /\ UNCHANGED <<hull, analysis, vpp, sweep, logger>>

\* hydro_analysis.set_state(sink, trim), which is hull.set_state(sink, trim)
SetState(sink, trim) ==
    /\ LET id == NewId(heap)
           h1 == [heap EXCEPT ![id] = Frame(DatumId, 0, sink, trim)]
           hl == hull_set_state(h1, hull, id)
       IN  /\ hull' = hl
           /\ heap' = Reclaim(h1, Roots(hl, foils))
    /\ ret' = Called("set_state", <<sink, trim>>, Returned("", NoValue))
    /\ UNCHANGED <<foils, analysis, vpp, sweep, logger>>

\* foils[i].set_location(pos_x, pos_z, rot_y)
SetLocation(i, pos_x, pos_z, rot_y) ==
    /\ LET id == NewId(heap)
           h1 == [heap EXCEPT ![id] = set_location_frame(heap, foils[i], pos_x, pos_z, rot_y)]
           fs == [foils EXCEPT ![i].frame = id]
       IN  /\ foils' = fs
           /\ heap' = Reclaim(h1, Roots(hull, fs))
    /\ ret' = Called("set_location", <<i, pos_x, pos_z, rot_y>>, Returned("", NoValue))
    /\ UNCHANGED <<hull, analysis, vpp, sweep, logger>>

\* foils[i].resize(span, chord, thickness_ratio)
Resize(i, span, chord, thickness_ratio) ==
    /\ LET r == resize(foils[i], span, chord, thickness_ratio)
       IN  /\ foils' = [foils EXCEPT ![i] = r[1]]
           /\ ret' = Called("resize", <<span, chord, i>>, [exc |-> r[2], val |-> NoValue])
    /\ UNCHANGED <<heap, hull, analysis, vpp, sweep, logger>>

\* hull.force_moment(speed)
HullForceMoment(speed) ==
    /\ \E cf \in SchoenherrRoots, wave \in WaveResistances :
          LET r == hull_force_moment(hull, cf, wave, speed)
          IN  /\ hull' = r[1]
              /\ ret' = Called("Hull.force_moment", <<speed>>, r[2])
    /\ UNCHANGED <<heap, foils, analysis, vpp, sweep, logger>>

\* foils[i].force_moment(speed)
FoilForceMoment(i, speed) ==
    /\ \E cf \in SchoenherrRoots :
          LET f == foil_force_moment(heap, foils[i], cf, speed)
          IN  /\ foils' = [foils EXCEPT ![i] = f]
              /\ ret' = Called("HydroFoil.force_moment", <<i, speed>>,
                               Returned("", foil_wrench(f)))
    /\ UNCHANGED <<heap, hull, analysis, vpp, sweep, logger>>

\* foils[i].cavitation_check()
CavitationCheck(i) ==
    /\ ret' = Called("cavitation_check", <<i>>, Returned("", <<cavitation_check(foils[i])>>))
    /\ UNCHANGED <<heap, hull, foils, analysis, vpp, sweep, logger>>

\* foils[i].structural_mass(max_angle_of_attack, max_speed, Steel, fos=1.3,
\*                          scaling_factor=1.8, share_frac=0.2)
StructuralMass(i, max_angle_of_attack, max_speed) ==
    /\ \E cf \in SchoenherrRoots :
          LET others == {hull.frame} \cup {foils[j].frame : j \in 1..Len(foils) \ {i}}
              r == structural_mass(heap, foils[i], others, max_angle_of_attack,
                                   max_speed, Steel, 13, 18, 2, cf)
              fs == [foils EXCEPT ![i] = r.foil]
          IN  /\ foils' = fs
              /\ heap' = Reclaim(r.heap, Roots(hull, fs))
              /\ ret' = Called("structural_mass", <<i, max_angle_of_attack, max_speed>>, r)
    /\ UNCHANGED <<hull, analysis, vpp, sweep, logger>>

\* hydro_analysis.add_mass_component(MassComponent(mass, *hull.mass_reference_point()))
AddMassComponent(mass) ==
    /\ Len(analysis.mass_components) < MaxComponents
    /\ analysis' = [analysis EXCEPT !.mass_components =
                       Append(@, MassComponent(mass, hull.length * 50, hull.height \div 3))]
    /\ ret' = Called("add_mass_component", <<mass>>, Returned("", NoValue))
    /\ UNCHANGED <<heap, hull, foils, vpp, sweep, logger>>

\* hydro_analysis.add_foil(foils[i], MassComponent(mass, -chord / 4, 0))
AddFoil(i, mass) ==
    /\ Len(analysis.mass_components) < MaxComponents
    /\ analysis' = add_foil(heap, hull, foils, analysis, i,
                            MassComponent(mass, Quot(-foils[i].chord, 4), 0))
    /\ ret' = Called("add_foil", <<i, mass>>, Returned("", NoValue))
    /\ UNCHANGED <<heap, hull, foils, vpp, sweep, logger>>

\* hydro_analysis.force_moment_body(speed)
ForceMomentBody(speed) ==
    /\ \E cf_hull \in SchoenherrRoots, wave \in WaveResistances, cf_foil \in SchoenherrRoots :
          LET r == force_moment_body(heap, hull, foils, analysis, cf_hull, wave, cf_foil, speed)
          IN  /\ hull' = r.hull
              /\ foils' = r.foils
              /\ ret' = Called("force_moment_body", <<speed>>, r)
    /\ UNCHANGED <<heap, analysis, vpp, sweep, logger>>

\* hydro_analysis.force_moment_waterplane(speed)
ForceMomentWaterplane(speed) ==
    /\ \E cf_hull \in SchoenherrRoots, wave \in WaveResistances, cf_foil \in SchoenherrRoots :
          LET r == force_moment_waterplane(heap, hull, foils, analysis,
                                           cf_hull, wave, cf_foil, speed)
          IN  /\ hull' = r.hull
              /\ foils' = r.foils
              /\ ret' = Called("force_moment_waterplane", <<speed>>, r)
    /\ UNCHANGED <<heap, analysis, vpp, sweep, logger>>

\* run_sink_vpp(hydro_analysis, speed, x0) enters optimize.minimize; the
\* Schoenherr roots depend on the speed alone and stay the same during the run
StartSinkVpp(speed, x0) ==
    /\ vpp.pc = "idle"
    /\ \E cf_hull \in SchoenherrRoots, cf_foil \in SchoenherrRoots :
          vpp' = [pc |-> "sink", speed |-> speed, x0 |-> x0, trials |-> 0, tried |-> {},
                  cf_hull |-> cf_hull, cf_foil |-> cf_foil, res |-> NoResult]
    /\ ret' = NoCall
    /\ UNCHANGED <<heap, hull, foils, analysis, sweep, logger>>

\* the optimizer evaluates objective_sink at x; an exception of the objective
\* ends the run
SinkTrial(x) ==
    /\ vpp.pc = "sink"
    /\ vpp.trials < MaxTrials
    /\ vpp.trials = 0 => x = clip(vpp.x0, sink_bounds)
    /\ \E wave \in WaveResistances :
          LET r == objective_sink(heap, hull, foils, analysis, x, vpp.cf_hull, wave,
                                  vpp.cf_foil, vpp.speed)
          IN  /\ hull' = r.hull
              /\ foils' = r.foils
              /\ heap' = Reclaim(r.heap, Roots(r.hull, r.foils))
              /\ ret' = Called(IF r.exc = "none" THEN "objective_sink" ELSE "run_sink_vpp",
                               <<x>>, r)
              /\ vpp' = IF r.exc = "none"
                        THEN [vpp EXCEPT !.trials = @ + 1, !.tried = @ \cup {x}]
                        ELSE [vpp EXCEPT !.pc = "idle"]
    /\ UNCHANGED <<analysis, sweep, logger>>

\* the cost objective_sink has at x in the current model
SinkCostAt(x, wave) ==
    objective_sink(heap, hull, foils, analysis, x, vpp.cf_hull, wave, vpp.cf_foil,
                   vpp.speed).val[1]

IsSinkMinimum(x) ==
    \A wave \in WaveResistances :
        \/ WithinTolerance(SinkCostAt(x, wave))
        \/ /\ x \in {sink_bounds[1], sink_bounds[2]}
           /\ \A y \in Neighbours(SinkGrid, x) : SinkCostAt(x, wave) <= SinkCostAt(y, wave)

\* optimize.minimize ends with res = (success, x), and run_sink_vpp with it
SinkFinish(success, x) ==
    /\ vpp.pc = "sink"
    /\ x \in vpp.tried
    /\ success => IsSinkMinimum(x)
    /\ vpp' = [vpp EXCEPT !.pc = "idle", !.res = [success |-> success, x |-> x]]
    /\ ret' = Called("run_sink_vpp", <<vpp.speed, vpp.x0>>,
                     run_sink_vpp([success |-> success, x |-> x]))
    /\ UNCHANGED <<heap, hull, foils, analysis, sweep, logger>>

\* run_foil_aoa_vpp(foils[i], lift_target, speed, x0, -90, 90) enters
\* optimize.minimize
StartAoaVpp(i, lift_target, speed, x0) ==
    /\ vpp.pc = "idle"
    /\ \E cf_foil \in SchoenherrRoots :
          vpp' = [pc |-> "aoa", foil |-> i, target |-> lift_target, speed |-> speed,
                  x0 |-> x0, trials |-> 0, tried |-> {}, cf_foil |-> cf_foil,
                  res |-> NoResult]
    /\ ret' = NoCall
    /\ UNCHANGED <<heap, hull, foils, analysis, sweep, logger>>

\* the optimizer evaluates objective_foil_aoa at x
AoaTrial(x) ==
    /\ vpp.pc = "aoa"
    /\ vpp.trials < MaxTrials
    /\ vpp.trials = 0 => x = clip(vpp.x0, aoa_bounds)
    /\ LET r == objective_foil_aoa(heap, foils[vpp.foil], x, vpp.cf_foil, vpp.speed,
                                   vpp.target)
           fs == [foils EXCEPT ![vpp.foil] = r.foil]
       IN  /\ foils' = fs
           /\ heap' = Reclaim(r.heap, Roots(hull, fs))
           /\ ret' = Called("objective_foil_aoa", <<x>>, r)
    /\ vpp' = [vpp EXCEPT !.trials = @ + 1, !.tried = @ \cup {x}]
    /\ UNCHANGED <<hull, analysis, sweep, logger>>

\* the cost objective_foil_aoa has at x for the foil of the run
AoaCostAt(x) ==
    objective_foil_aoa(heap, foils[vpp.foil], x, vpp.cf_foil, vpp.speed, vpp.target).val[1]

\* ftol = 1e-12: a zero cost, a bound with no lower cost next to it, or the
\* same cost at the points next to x
IsAoaMinimum(x) ==
    \/ AoaCostAt(x) = 0
    \/ /\ x \in {aoa_bounds[1], aoa_bounds[2]}
       /\ \A y \in Neighbours(AoaGrid, x) : AoaCostAt(x) <= AoaCostAt(y)
    \/ \A y \in Neighbours(AoaGrid, x) : AoaCostAt(x) = AoaCostAt(y)

\* optimize.minimize ends with res = (success, x); on success run_foil_aoa_vpp
\* evaluates objective_foil_aoa(res.x, ...) once more and tests the cost
AoaFinish(success, x) ==
    /\ vpp.pc = "aoa"
    /\ x \in vpp.tried
    /\ success => IsAoaMinimum(x)
    /\ LET r == objective_foil_aoa(heap, foils[vpp.foil], x, vpp.cf_foil, vpp.speed,
                                   vpp.target)
           fs == IF success THEN [foils EXCEPT ![vpp.foil] = r.foil] ELSE foils
       IN  /\ foils' = fs
           /\ heap' = IF success THEN Reclaim(r.heap, Roots(hull, fs)) ELSE heap
           /\ ret' = Called("run_foil_aoa_vpp", <<vpp.target, vpp.speed, vpp.x0>>,
                            run_foil_aoa_vpp([success |-> success, x |-> x], r.val[1]))
    /\ vpp' = [vpp EXCEPT !.pc = "idle", !.res = [success |-> success, x |-> x]]
    /\ UNCHANGED <<hull, analysis, sweep, logger>>

(* The sweeps of src/analyses: fully_foiling of small_fully_foiling.py
   ("small") and of feeder_vessel_foil_sweeps.py ("feeder"),
   foil_size_sweep_supply_vessel ("foil_size") and
   fully_foiling_supply_vessel ("supply") of supply_vessel_foil_sweeps.py.
   sweep = [pc, kind, n, i, call, guess, logged, solves, exc]: the loop is at
   call number `call` of the body for sample i of n, guess is aoa_equilib,
   logged the samples log_all() was reached for, solves the equilibrium
   solves so far (x0 passed, outcome), exc the exception that left the loop. *)

Sweeps == {"small", "feeder", "foil_size", "supply"}

\* aoa_equilib before the loop: np.deg2rad(1), np.deg2rad(4) [mrad]
initial_guess(kind) == IF kind = "supply" THEN 70 ELSE 17

\* the calls of the loop body that can raise, in order
loop_body(kind) ==
    CASE kind = "small" -> <<"equilib", "takeoff", "sink">>
      [] kind = "feeder" -> <<"equilib", "sink">>
      [] kind = "foil_size" -> <<"structural_mass", "sink">>
      [] kind = "supply" -> <<"equilib">>

\* the exceptions the try statement around a call handles with continue
caught(kind, call) ==
    CASE call = "equilib" -> {"VPPSolverError", "FoilError"}
      [] call = "structural_mass" -> {"FoilError"}
      [] call = "sink" /\ kind = "foil_size" -> {"FoilError"}
      [] OTHER -> {}

\* aoa_equilib when the result of the solve is bound to another name
carried_unassigned(guess, outcome) == guess

\* aoa_equilib = run_foil_aoa_vpp(..., aoa_equilib): aoa_equilib after it
carried(guess, outcome) == IF outcome.exc = "none" THEN outcome.val[1] ELSE guess

\* the for statement goes to the next sample, or ends
next_sample(s) ==
    IF s.i = s.n THEN [s EXCEPT !.pc = "done"] ELSE [s EXCEPT !.i = @ + 1, !.call = 1]

\* the loop after a call of the body ended with outcome: the next call, or
\* log_all() and the next sample, or continue, or the exception leaves the loop
after_call(s, outcome) ==
    IF outcome.exc = "none"
    THEN IF s.call = Len(loop_body(s.kind))
         THEN next_sample([s EXCEPT !.logged = @ \cup {s.i}])
         ELSE [s EXCEPT !.call = @ + 1]
    ELSE IF outcome.exc \in caught(s.kind, loop_body(s.kind)[s.call])
         THEN next_sample(s)
         ELSE [s EXCEPT !.pc = "aborted", !.exc = outcome.exc]

\* the sweep reaches its loop over n samples
StartSweep(kind, n) ==
    /\ sweep.pc = "idle"
    /\ vpp.pc = "idle"
    /\ sweep' = [pc |-> "loop", kind |-> kind, n |-> n, i |-> 1, call |-> 1,
                 guess |-> initial_guess(kind), logged |-> {}, solves |-> <<>>,
                 exc |-> "none"]
    /\ UNCHANGED <<heap, hull, foils, analysis, ret, vpp, logger>>

\* the loop is at the call named call
AtCall(call) == sweep.pc = "loop" /\ loop_body(sweep.kind)[sweep.call] = call

\* try: aoa_equilib = run_foil_aoa_vpp(foil, lift_target, speed, aoa_equilib)
\* where the optimizer ends with res and the final cost is cost
EquilibriumSolve(res, cost) ==
    /\ AtCall("equilib")
    /\ LET outcome == run_foil_aoa_vpp(res, cost)
       IN  sweep' = after_call(
                [sweep EXCEPT !.guess = carried(@, outcome),
                              !.solves = Append(@, [x0 |-> sweep.guess, exc |-> outcome.exc,
                                                    val |-> outcome.val])],
                outcome)
    /\ UNCHANGED <<heap, hull, foils, analysis, ret, vpp, logger>>

\* aoa_takeoff = run_foil_aoa_vpp(foils[0], lift_target, speed_takeoff, aoa_equilib, ...)
TakeoffSolve(res, cost) ==
    /\ AtCall("takeoff")
    /\ sweep' = after_call(sweep, run_foil_aoa_vpp(res, cost))
    /\ UNCHANGED <<heap, hull, foils, analysis, ret, vpp, logger>>

\* run_sink_vpp(hydro_analysis, speed, -1) where the optimizer ends with res
SinkSolve(res) ==
    /\ AtCall("sink")
    /\ sweep' = after_call(sweep, run_sink_vpp(res))
    /\ UNCHANGED <<heap, hull, foils, analysis, ret, vpp, logger>>

\* foil_mass = foil_port.structural_mass(...), ending with outcome
StructuralMassCall(outcome) ==
    /\ AtCall("structural_mass")
    /\ sweep' = after_call(sweep, outcome)
    /\ UNCHANGED <<heap, hull, foils, analysis, ret, vpp, logger>>

\* the Frame objects a caller can name: Datum() and those within reach of the
\* hull and the foils
Frames == {DatumId} \cup Live(heap, Roots(hull, foils))

\* a.vector_to_frame(x, z, b)
VectorToFrame(a, b, x, z) ==
    /\ ret' = Called("vector_to_frame", <<a, b, x, z>>,
                     Returned("", vector_to_frame(heap, a, x, z, b)))
    /\ UNCHANGED <<heap, hull, foils, analysis, vpp, sweep, logger>>

\* a.vector_from_frame(x, z, b)
VectorFromFrame(a, b, x, z) ==
    /\ ret' = Called("vector_from_frame", <<a, b, x, z>>,
                     Returned("", vector_from_frame(heap, a, x, z, b)))
    /\ UNCHANGED <<heap, hull, foils, analysis, vpp, sweep, logger>>

\* hull = Hull(36, 8, 3, bow_fraction, chine_fraction)
NewHull(bow_fraction, chine_fraction) ==
    /\ LET id == NewId(heap)
           h1 == [heap EXCEPT ![id] = Frame(DatumId, 0, Quot(-300, 3), 0)]
           c == hull_init(36, 8, 300, bow_fraction, chine_fraction, id)
           hl == IF c[2] = "none" THEN c[1] ELSE hull
       IN  /\ hull' = hl
           /\ heap' = Reclaim(h1, Roots(hl, foils))
           /\ ret' = Called("Hull", <<bow_fraction, chine_fraction>>,
                            [exc |-> c[2], val |-> NoValue])
    /\ UNCHANGED <<foils, analysis, vpp, sweep, logger>>

\* logger.run()
LoggerRun ==
    /\ logger' = run(logger)
    /\ ret' = Called("run", <<>>, Returned("", NoValue))
    /\ UNCHANGED <<heap, hull, foils, analysis, vpp, sweep>>

\* logger.add_group(name, hull)
AddGroup(name) ==
    /\ LET r == add_group(logger, name, "hull")
       IN  /\ logger' = r[1]
           /\ ret' = Called("add_group", <<name>>, [exc |-> r[2], val |-> NoValue])
    /\ UNCHANGED <<heap, hull, foils, analysis, vpp, sweep>>

\* logger.add_group2(Logger.ChannelGroup(name, hull))
AddGroup2(name) ==
    /\ LET r == add_group2(logger, ChannelGroup(name, "hull"))
       IN  /\ logger' = r[1]
           /\ ret' = Called("add_group2", <<name>>, [exc |-> r[2], val |-> NoValue])
    /\ UNCHANGED <<heap, hull, foils, analysis, vpp, sweep>>

\* logger.add_channel_to_group(channel_name, group_name, alias)
AddChannelToGroup(channel_name, group_name, alias) ==
    /\ LET r == add_channel_to_group(logger, channel_name, group_name, alias)
       IN  /\ logger' = r[1]
           /\ ret' = Called("add_channel_to_group", <<channel_name, group_name, alias>>,
                            [exc |-> r[2], val |-> NoValue])
    /\ UNCHANGED <<heap, hull, foils, analysis, vpp, sweep>>

\* logger.log_all()
LogAll ==
    /\ logger.log_all_calls < MaxLogs
    /\ LET r == log_all(logger, hull)
       IN  /\ logger' = r[1]
           /\ ret' = Called("log_all", <<>>, [exc |-> r[2], val |-> NoValue])
    /\ UNCHANGED <<heap, hull, foils, analysis, vpp, sweep>>

(* Driver calls, grouped *)

DoNewFoil ==
    \E span \in Spans, chord \in Chords, x \in FoilXs, z \in FoilZs, r \in FoilRots,
       t \in ThicknessRatios, e \in EndPlateFactors : NewFoil(span, chord, x, z, r, t, e)

DoSetState == \E sink \in Sinks, trim \in Trims : SetState(sink, trim)

DoConstruct ==
    \E span \in AnySpans, chord \in AnyChords, e \in AnyEndPlateFactors :
       NewFoil(span, chord, 100, -50, 0, 10, e)

DoResize ==
    \E i \in 1..Len(foils), span \in AnySpans, chord \in AnyChords,
       t \in ResizedThicknessRatios : Resize(i, span, chord, t)

DoAddVesselMass == vpp.pc = "idle" /\ \E mass \in VesselMasses : AddMassComponent(mass)

DoStartSinkVpp == \E speed \in Speeds, x0 \in SinkGuesses : StartSinkVpp(speed, x0)

DoSinkTrial == \E x \in SinkGrid : SinkTrial(x)

DoSinkFinish == \E success \in BOOLEAN, x \in SinkGrid : SinkFinish(success, x)

DoNewLevelFoil ==
    /\ vpp.pc = "idle"
    /\ \E span \in Spans, chord \in Chords, x \in FoilXs, z \in FoilZs,
          t \in ThicknessRatios, e \in EndPlateFactors : NewFoil(span, chord, x, z, 0, t, e)

DoStartAoaVpp ==
    \E i \in 1..Len(foils), target \in LiftTargets, speed \in AoaSpeeds, x0 \in AoaGuesses :
       StartAoaVpp(i, target, speed, x0)

DoAoaTrial == \E x \in AoaGrid : AoaTrial(x)

DoAoaFinish == \E success \in BOOLEAN, x \in AoaGrid : AoaFinish(success, x)

DoStartSweep == \E kind \in Sweeps, n \in 1..MaxPoints : StartSweep(kind, n)

DoEquilibriumSolve == \E res \in SweepResults, cost \in SweepCosts : EquilibriumSolve(res, cost)

DoTakeoffSolve == \E res \in SweepResults, cost \in SweepCosts : TakeoffSolve(res, cost)

DoSinkSolve == \E res \in SweepResults : SinkSolve(res)

DoStructuralMassCall == \E outcome \in MassOutcomes : StructuralMassCall(outcome)

DoNewTurnedFoil ==
    \E span \in Spans, chord \in Chords, x \in FoilXs, r \in FoilRots,
       t \in ThicknessRatios, e \in EndPlateFactors : NewFoil(span, chord, x, -50, r, t, e)

DoVectorToFrame ==
    \E a \in Frames, b \in Frames, v \in Vectors : VectorToFrame(a, b, v[1], v[2])

DoVectorFromFrame ==
    \E a \in Frames, b \in Frames, v \in Vectors : VectorFromFrame(a, b, v[1], v[2])

DoNewHull == \E bow \in AnyFractions, chine \in AnyFractions : NewHull(bow, chine)

DoSetStateMounted == \E sink \in MountedSinks, trim \in Trims : SetState(sink, trim)

DoSetLocation ==
    \E i \in 1..Len(foils), x \in FoilXs, z \in FoilZs, r \in FoilRots :
       SetLocation(i, x, z, r)

DoHullForceMoment == \E speed \in Speeds : HullForceMoment(speed)

DoFoilForceMoment == \E i \in 1..Len(foils), speed \in Speeds : FoilForceMoment(i, speed)

DoStructuralMass ==
    \E i \in 1..Len(foils), a \in MaxAngles, speed \in Speeds : StructuralMass(i, a, speed)

DoAddMassComponent == \E mass \in Masses : AddMassComponent(mass)

DoAddFoil == \E i \in 1..Len(foils), mass \in Masses : AddFoil(i, mass)

DoForceMomentWaterplane == \E speed \in Speeds : ForceMomentWaterplane(speed)

(* A script on an analysis: foils are constructed and the hull is set, each
   foil is added once, and then the script moves and resizes the added foil,
   sizes its structure (each of these optional), sets the hull and runs one
   solver, in this order. *)
Unmounted == vpp.pc = "idle" /\ analysis.foils = <<>>

\* the last call was add_foil or one of the later calls named
Follows(calls) ==
    /\ vpp.pc = "idle"
    /\ analysis.foils # <<>>
    /\ ret.op \in {"add_foil"} \cup calls

DoMountFoil == Unmounted /\ DoNewTurnedFoil

DoSetUnmountedState == Unmounted /\ DoSetStateMounted

DoAddMountedFoil == Unmounted /\ DoAddFoil

DoMoveMountedFoil ==
    /\ Follows({})
    /\ \E i \in 1..Len(foils) : SetLocation(i, 100, 100, -1)

DoResizeMountedFoil ==
    /\ Follows({"set_location"})
    /\ \E i \in 1..Len(foils) : Resize(i, 400, 100, 10)

DoMountedStructuralMass ==
    /\ Follows({"set_location", "resize"})
    /\ \E i \in 1..Len(foils) : StructuralMass(i, 0, 5)

DoSetMountedState ==
    /\ Follows({"set_location", "resize", "structural_mass"})
    /\ DoSetStateMounted

DoStartMountedSinkVpp ==
    /\ Follows({"set_state"})
    /\ ret.op = "set_state"
    /\ StartSinkVpp(10, -150)

DoStartMountedAoaVpp ==
    /\ Follows({"set_state"})
    /\ ret.op = "set_state"
    /\ \E i \in 1..Len(foils) : StartAoaVpp(i, 0, 10, 0)

DoNewShallowFoil ==
    \E span \in Spans \cup {400}, chord \in Chords, x \in FoilXs, z \in SubmersionZs, r \in FoilRots,
       t \in ThicknessRatios, e \in EndPlateFactors : NewFoil(span, chord, x, z, r, t, e)

DoNewLoadedFoil ==
    \E p \in LoadedPlanforms, x \in FoilXs, z \in LoadedZs, r \in LoadedRots,
       t \in ThicknessRatios, e \in EndPlateFactors : NewFoil(p[1], p[2], x, z, r, t, e)

DoCavitationCheck == \E i \in 1..Len(foils) : CavitationCheck(i)

(* A script that sets the hull, mounts a foil on the hull's frame, adds it and
   the vessel's mass to the analysis and runs one solver *)

DoSetPriorState ==
    /\ vpp.pc = "idle" /\ foils = <<>> /\ ret.op = "none"
    /\ \E sink \in PriorSinks, trim \in Trims : SetState(sink, trim)

DoAddMountedVesselMass ==
    /\ vpp.pc = "idle" /\ ret.op = "add_foil"
    /\ AddMassComponent(359017)

DoStartLoadedSinkVpp ==
    /\ ret.op = "add_mass_component"
    /\ StartSinkVpp(10, -150)

DoStartLoadedAoaVpp ==
    /\ ret.op = "add_mass_component"
    /\ \E i \in 1..Len(foils), target \in LiftTargets : StartAoaVpp(i, target, 10, 0)

DoForceMomentBody == ForceMomentBody(10)

\* the script sets the hull before it adds components, and queries the net
\* wrench last
DoSetBodyState == ret.op \in {"none", "HydroFoil"} /\ DoSetStateMounted

DoAddAnyFoil ==
    ret.op \notin {"force_moment_body", "force_moment_waterplane"} /\ DoAddFoil

DoAddAnyMass ==
    ret.op \notin {"force_moment_body", "force_moment_waterplane"} /\ DoAddMassComponent

DoWaterplane == ForceMomentWaterplane(10)

\* the script has made no force query yet
Assembling == ret.op \in {"none", "HydroFoil", "set_state", "add_foil", "add_mass_component"}

DoAssembleFoil == Assembling /\ DoAddFoil

DoAssembleMass == Assembling /\ DoAddMassComponent

DoQueryHull == Assembling /\ HullForceMoment(10)

DoQueryBody == (Assembling \/ ret.op = "Hull.force_moment") /\ ForceMomentBody(10)

DoQueryWaterplane == (Assembling \/ ret.op = "force_moment_body") /\ ForceMomentWaterplane(10)

DoQueryFoil == ret.op # "HydroFoil.force_moment" /\ \E i \in 1..Len(foils) : FoilForceMoment(i, 10)

DoAddGroup == \E name \in GroupNames : AddGroup(name)

DoAddGroup2 == \E name \in GroupNames : AddGroup2(name)

\* the aliases registered in group "Hull"
HullAliases ==
    IF "Hull" \in Keys(logger.log_groups) THEN Get(logger.log_groups, "Hull").aliases ELSE <<>>

DoAddChannelToGroup ==
    \E channel_name \in ChannelNames, alias \in Aliases :
       /\ Len(HullAliases) < MaxChannels \/ alias \in Keys(HullAliases)
       /\ AddChannelToGroup(channel_name, "Hull", alias)

DoAddChannelToSpare == AddChannelToGroup("_draft", "Spare", None)

\* the hull is moved before a call of log_all
DoSinkLoggedHull == hull.draft = 0 /\ SetState(-150, 0)

\* Frames: a hull, foils mounted on its frame, and the calls that move them
Next ==
    \/ DoNewFoil
    \/ DoSetStateMounted
    \/ DoSetLocation

Spec == Init /\ [][Next]_vars

\* The hull alone
HullNext ==
    \/ DoSetState
    \/ DoHullForceMoment

HullSpec == Init /\ [][HullNext]_vars

\* The foils alone, under a hull that stays where it was constructed
FoilNext ==
    \/ DoNewFoil
    \/ DoSetLocation
    \/ DoStructuralMass

FoilSpec == Init /\ [][FoilNext]_vars

\* Construction and resizing of foils with arguments of any sign
CtorNext ==
    \/ DoConstruct
    \/ DoResize

CtorSpec == Init /\ [][CtorNext]_vars

\* The sink solver on a hull with mass components
SinkVppNext ==
    \/ DoAddVesselMass
    \/ DoStartSinkVpp
    \/ DoSinkTrial
    \/ DoSinkFinish

SinkVppSpec == Init /\ [][SinkVppNext]_vars

\* The angle of attack solver on foils
AoaVppNext ==
    \/ DoNewLevelFoil
    \/ DoStartAoaVpp
    \/ DoAoaTrial
    \/ DoAoaFinish

AoaVppSpec == Init /\ [][AoaVppNext]_vars

\* Vectors carried between the frames of a hull and its foils
FrameNext ==
    \/ DoNewTurnedFoil
    \/ DoSetStateMounted
    \/ DoVectorToFrame
    \/ DoVectorFromFrame

FrameSpec == Init /\ [][FrameNext]_vars

\* Hulls of any fractions
HullCtorNext ==
    \/ DoNewHull
    \/ DoSetState

HullCtorSpec == Init /\ [][HullCtorNext]_vars

\* A script on an analysis with a foil
AnalysisNext ==
    \/ DoMountFoil
    \/ DoSetUnmountedState
    \/ DoAddMountedFoil
    \/ DoMoveMountedFoil
    \/ DoResizeMountedFoil
    \/ DoMountedStructuralMass
    \/ DoSetMountedState
    \/ DoStartMountedSinkVpp
    \/ DoSinkTrial
    \/ DoSinkFinish
    \/ DoStartMountedAoaVpp
    \/ DoAoaTrial
    \/ DoAoaFinish

AnalysisSpec == Init /\ [][AnalysisNext]_vars

\* Foils near the water surface
SubmersionNext ==
    \/ DoNewShallowFoil
    \/ DoFoilForceMoment

SubmersionSpec == Init /\ [][SubmersionNext]_vars

\* A foil under load, and its cavitation check
CavitationNext ==
    \/ DoNewLoadedFoil
    \/ DoFoilForceMoment
    \/ DoCavitationCheck

CavitationSpec == Init /\ [][CavitationNext]_vars

\* One solver run on an assembly whose hull was set before the foil was mounted
PriorStateNext ==
    \/ DoSetPriorState
    \/ DoMountFoil
    \/ DoAddMountedFoil
    \/ DoAddMountedVesselMass
    \/ DoStartLoadedSinkVpp
    \/ DoSinkTrial
    \/ DoSinkFinish
    \/ DoStartLoadedAoaVpp
    \/ DoAoaTrial
    \/ DoAoaFinish

PriorStateSpec == Init /\ [][PriorStateNext]_vars

\* An assembly of a hull, a foil and masses, and its net wrench in the hull frame
BodyNext ==
    \/ DoMountFoil
    \/ DoSetBodyState
    \/ DoAddAnyFoil
    \/ DoAddAnyMass
    \/ DoForceMomentBody

BodySpec == Init /\ [][BodyNext]_vars

\* The same assembly, and its net wrench in Datum
WaterplaneNext ==
    \/ DoMountFoil
    \/ DoSetBodyState
    \/ DoAddAnyFoil
    \/ DoAddAnyMass
    \/ DoWaterplane

WaterplaneSpec == Init /\ [][WaterplaneNext]_vars

\* An assembly, then its force queries: the hull's, the body's, the
\* waterplane's, and a foil's after any of them
QueryNext ==
    \/ DoMountFoil
    \/ DoSetBodyState
    \/ DoAssembleFoil
    \/ DoAssembleMass
    \/ DoQueryHull
    \/ DoQueryFoil
    \/ DoQueryBody
    \/ DoQueryWaterplane

QuerySpec == Init /\ [][QueryNext]_vars

\* A Logger on the hull
LoggerNext ==
    \/ LoggerRun
    \/ DoAddGroup
    \/ DoAddGroup2
    \/ DoAddChannelToGroup
    \/ DoAddChannelToSpare
    \/ LogAll
    \/ DoSinkLoggedHull

LoggerSpec == Init /\ [][LoggerNext]_vars

\* The sweeps of src/analyses
SweepNext ==
    \/ DoStartSweep
    \/ DoEquilibriumSolve
    \/ DoTakeoffSolve
    \/ DoSinkSolve
    \/ DoStructuralMassCall

SweepSpec == Init /\ [][SweepNext]_vars

-----------------------------------------------------------------------------
(* Foils and the hull's frame *)

\* a location (pos_x, pos_z, rot_y) composed with the frame hull_frame:
\* origin and rotation in Datum of a frame at that location in hull_frame
composed_with(h, hull_frame, loc) ==
    << origin_in_datum(h, hull_frame)[1]
         + vector_to_frame(h, hull_frame, loc[1], loc[2], DatumId)[1],
       origin_in_datum(h, hull_frame)[2]
         + vector_to_frame(h, hull_frame, loc[1], loc[2], DatumId)[2],
       rotation_in_datum(h, hull_frame) + loc[3] >>

in_datum(h, f) ==
    << origin_in_datum(h, f)[1], origin_in_datum(h, f)[2], rotation_in_datum(h, f) >>

\* C1: after any sequence of set_state(sink, trim) calls, every foil that was
\* created on the hull's frame has its origin and rotation in Datum equal to
\* its local (pos_x, pos_z, rot_y) composed with the hull's current frame
\* (0, sink, trim).
FoilsMoveWithHull ==
    \A i \in 1..Len(foils) :
        in_datum(heap, foils[i].frame)
            = composed_with(heap, hull.frame, get_location(heap, foils[i]))

-----------------------------------------------------------------------------
(* HydroFoil.structural_mass and the foil's location *)

\* where a foil is: its (pos_x, pos_z, rot_y) and its parent Frame object
placement(h, f) == << h[f.frame].pos_x, h[f.frame].pos_z, h[f.frame].rot_y, h[f.frame].ref >>

\* C2: a call of structural_mass leaves the foil's location (pos_x, pos_z,
\* rot_y and parent frame) as it was before the call, on normal return and
\* when it raises FoilError.
StructuralMassRestoresLocation ==
    [][ ret'.op = "structural_mass"
          => placement(heap', foils'[ret'.args[1]]) = placement(heap, foils[ret'.args[1]]) ]_vars

-----------------------------------------------------------------------------
(* The hull out of the water *)

\* the hull was put by set_state at a sink >= 0 (a newly constructed hull is at
\* sink -height / 3)
AtOrAboveSurface == heap[hull.frame].pos_z >= 0

\* C3: for a hull set by set_state to a sink >= 0, force_moment(speed)
\* completes without a division by zero and returns a wrench with zero drag
\* and zero buoyancy, with wetted area, displaced volume, Cp, Cm and Cwp zero.
ZeroDraftForceMomentIsZero ==
    (ret.op = "Hull.force_moment" /\ AtOrAboveSurface)
        => /\ ret.exc = "none"
           /\ ret.val = ForceMoment(0, 0, 0)
           /\ hull.wetted_area = 0
           /\ hull.displaced_volume = 0
           /\ hull.Cp = 0
           /\ hull.Cm = 0
           /\ hull.Cwp = 0

-----------------------------------------------------------------------------
(* Construction of foils *)

\* the call that just returned constructed the last foil of foils
Constructed == ret.op = "HydroFoil" /\ ret.exc = "none"

\* an end plate factor clamped to the bounds [1.0, 2] [tenths]
clamped(end_plate_factor) == Max(10, Min(20, end_plate_factor))

\* C4: the end plate factor the constructor stores is its argument clamped to
\* [1.0, 2], and the effective aspect ratio is the aspect ratio times the stored
\* factor.
EndPlateFactorIsClamped ==
    Constructed
        => /\ foils[Len(foils)].end_plate_factor = clamped(ret.args[3])
           /\ foils[Len(foils)].aspect_ratio_effective
                = Quot(foils[Len(foils)].aspect_ratio * foils[Len(foils)].end_plate_factor, 10)

\* C5: constructing a foil with span <= 0 or chord <= 0 raises ValueError, as
\* resize does, so no foil has a non-positive span or chord.
NonPositiveFoilIsRejected ==
    /\ (ret.op \in {"HydroFoil", "resize"} /\ (ret.args[1] <= 0 \/ ret.args[2] <= 0))
           => ret.exc = "ValueError"
    /\ \A i \in 1..Len(foils) : foils[i].span > 0 /\ foils[i].chord > 0

-----------------------------------------------------------------------------
(* The sink solver *)

\* run_sink_vpp has returned a sink
SinkReturned == ret.op = "run_sink_vpp" /\ ret.exc = "none"

\* C7: whenever run_sink_vpp returns a sink, the net vertical waterplane force
\* at that sink and trim 0 is zero within the solver tolerance; a run that ends
\* where the vertical force is not balanced ends in VPPSolverError.
ReturnedSinkIsBalanced ==
    SinkReturned
        => \A wave \in WaveResistances : WithinTolerance(SinkCostAt(ret.val[1], wave))

\* C8: run_sink_vpp raises VPPSolverError if and only if the optimizer reports
\* non-success, and otherwise returns the optimizer's sink, which lies in
\* [-15, -0.01]; every trial state it applies to the assembly has trim 0.
SinkRunOutcome ==
    /\ ret.op = "run_sink_vpp"
          => /\ ret.exc \in {"none", "VPPSolverError"}
             /\ (ret.exc = "VPPSolverError") <=> ~vpp.res.success
             /\ ret.exc = "none"
                   => /\ ret.val = <<vpp.res.x>>
                      /\ -1500 <= ret.val[1]
                      /\ ret.val[1] <= -1
    /\ ret.op = "objective_sink"
          => heap[hull.frame] = Frame(DatumId, 0, ret.args[1], 0)

\* a run on a loaded hull returned the sink of the optimizer, the hull at trim 0
SinkRunReturned ==
    /\ SinkReturned
    /\ vpp.res.success
    /\ analysis.mass_components # <<>>
    /\ heap[hull.frame].rot_y = 0
    /\ heap[hull.frame].pos_z \in SinkGrid


-----------------------------------------------------------------------------
\* run_foil_aoa_vpp has ended and returned an angle
AoaReturned == ret.op = "run_foil_aoa_vpp" /\ ret.exc = "none"

\* |lift - target| [N] of the foil of the run, as left by the evaluation of
\* objective_foil_aoa at the optimizer's angle
FinalResidual == aoa_cost(foils[vpp.foil], vpp.res.x, vpp.target)

\* C6 as stated: run_foil_aoa_vpp returns an angle if and only if the optimizer
\* reported success and the final residual is strictly below 0.1 kN (100 N);
\* for a final residual of 0.1 kN or more, and for a non-success, it raises
\* VPPSolverError.
AoaReturnsOnlyBelowTolerance ==
    ret.op = "run_foil_aoa_vpp" =>
        /\ ret.exc \in {"none", "VPPSolverError"}
        /\ ret.exc = "none" <=> (vpp.res.success /\ FinalResidual < 100)

\* C6, with the bound included: run_foil_aoa_vpp returns the optimizer's angle
\* if and only if the optimizer reported success and the final residual is at
\* most 0.1 kN (100 N); for a final residual above 0.1 kN, and for a
\* non-success, it raises VPPSolverError.
AoaReturnsWithinTolerance ==
    ret.op = "run_foil_aoa_vpp" =>
        /\ ret.exc \in {"none", "VPPSolverError"}
        /\ ret.exc = "none" <=> (vpp.res.success /\ FinalResidual <= 100)
        /\ ret.exc = "none" => ret.val = <<vpp.res.x>>

\* run_foil_aoa_vpp has returned an angle whose residual is exactly 0.1 kN
AoaReturnedAtTolerance == AoaReturned /\ FinalResidual = 100


-----------------------------------------------------------------------------
RECURSIVE LastConverged(_, _, _)
\* the angle returned by the most recent successful solve among the first k
\* equilibrium solves, or start if none of them succeeded
LastConverged(solves, k, start) ==
    IF k = 0 THEN start
    ELSE IF solves[k].exc = "none" THEN solves[k].val[1]
    ELSE LastConverged(solves, k - 1, start)

\* C9: in fully_foiling of small_fully_foiling.py and of
\* feeder_vessel_foil_sweeps.py and in foil_size_sweep_supply_vessel, a
\* VPPSolverError raised by a solve for one sample never aborts the sweep.
SolverErrorNeverAbortsSweep ==
    (sweep.pc = "aborted" /\ sweep.kind \in {"small", "feeder", "foil_size"})
        => sweep.exc # "VPPSolverError"

\* C10: the initial guess passed to each equilibrium angle-of-attack solve is
\* the angle returned by the most recent successful equilibrium solve before
\* it, or the configured starting guess if none has succeeded yet; a failed
\* solve leaves the carried guess unchanged.
WarmStartIsLastConverged ==
    sweep.pc # "idle" =>
        /\ \A k \in 1..Len(sweep.solves) :
              sweep.solves[k].x0
                  = LastConverged(sweep.solves, k - 1, initial_guess(sweep.kind))
        /\ sweep.guess
              = LastConverged(sweep.solves, Len(sweep.solves), initial_guess(sweep.kind))

\* a solve converged to an angle other than the starting guess, the next one
\* failed, and a third solve was made
WarmStartAfterFailure ==
    /\ sweep.pc # "idle"
    /\ Len(sweep.solves) >= 3
    /\ sweep.solves[1].exc = "none"
    /\ sweep.solves[1].val[1] # initial_guess(sweep.kind)
    /\ sweep.solves[2].exc = "VPPSolverError"


-----------------------------------------------------------------------------
(* Frame.py: vectors between frames *)

\* C11: for any two frames A and B and any vector v,
\* A.vector_from_frame(*A.vector_to_frame(*v, B), B) equals v, and likewise
\* vector_to_frame applied after vector_from_frame for the same pair.
VectorRoundTrip ==
    /\ ret.op = "vector_to_frame"
          => vector_from_frame(heap, ret.args[1], ret.val[1], ret.val[2], ret.args[2])
                 = <<ret.args[3], ret.args[4]>>
    /\ ret.op = "vector_from_frame"
          => vector_to_frame(heap, ret.args[1], ret.val[1], ret.val[2], ret.args[2])
                 = <<ret.args[3], ret.args[4]>>

\* a vector with two non-zero components was taken from a foil's frame to a
\* frame one parent nearer the Datum, a quarter turn apart
VectorTurned ==
    /\ ret.op = "vector_to_frame"
    /\ ret.args[1] \in Frames /\ ret.args[2] \in Frames
    /\ ret.args[1] # DatumId /\ heap[ret.args[1]].ref # DatumId
    /\ ret.args[2] # DatumId /\ heap[ret.args[2]].ref = DatumId
    /\ (rotation_in_datum(heap, ret.args[1]) - rotation_in_datum(heap, ret.args[2])) % 2 = 1
    /\ ret.args[3] # 0 /\ ret.args[4] # 0
    /\ ret.val # <<ret.args[3], ret.args[4]>>


-----------------------------------------------------------------------------
(* Hull.py: state and submerged geometry *)

\* C12: after Hull.set_state(sink, trim) the hull's frame is (0, sink, trim)
\* relative to a Datum and draft() equals max(0, -sink) whatever the trim;
\* after any sequence of set_state and force_moment calls the draft, the wetted
\* area and the displaced volume are never negative.
HullStateIsSet ==
    /\ ret.op = "set_state"
          => /\ heap[hull.frame].ref = DatumId
             /\ location(heap, hull.frame) = <<0, ret.args[1], ret.args[2]>>
             /\ hull.draft = Max(0, -ret.args[1])
    /\ hull.draft >= 0
    /\ hull.wetted_area >= 0
    /\ hull.displaced_volume >= 0

\* a trimmed hull was set into the water after force_moment had computed the
\* geometry of an earlier state
TrimmedHullIsSet ==
    /\ ret.op = "set_state"
    /\ ret.args[1] < 0
    /\ ret.args[2] # 0
    /\ hull.draft > 0
    /\ hull.wetted_area > 0
    /\ hull.displaced_volume > 0


\* C13: constructing a Hull fails with ValueError when bow_fraction or
\* chine_fraction is below 0 or above 1 and succeeds for every value in [0, 1],
\* 0 and 1 included, so no Hull has an out-of-range fraction.
HullFractionsAreValidated ==
    /\ ret.op = "Hull"
          => /\ ret.exc = "ValueError"
                   <=> \E k \in 1..2 : ret.args[k] < 0 \/ ret.args[k] > 100
             /\ ret.exc = "none"
                   <=> \A k \in 1..2 : ret.args[k] >= 0 /\ ret.args[k] <= 100
             /\ ret.exc = "none"
                   => /\ hull.bow_fraction = ret.args[1]
                      /\ hull.chine_fraction = ret.args[2]
    /\ hull.bow_fraction >= 0 /\ hull.bow_fraction <= 100
    /\ hull.chine_fraction >= 0 /\ hull.chine_fraction <= 100

\* a Hull was constructed with bow_fraction 1 and chine_fraction 0
HullAtFractionEnds ==
    /\ ret.op = "Hull"
    /\ ret.exc = "none"
    /\ ret.args = <<100, 0>>
    /\ hull.bow_fraction = 100
    /\ hull.chine_fraction = 0


-----------------------------------------------------------------------------
(* HydroAnalysis.py: mass components *)

\* the point (x, z) of the foil's frame in Datum coordinates
point_in_datum(h, f, x, z) ==
    <<origin_in_datum(h, f.frame)[1] + vector_to_frame(h, f.frame, x, z, DatumId)[1],
      origin_in_datum(h, f.frame)[2] + vector_to_frame(h, f.frame, x, z, DatumId)[2]>>

\* the point (x, z) of the foil's frame in the coordinates of the hull's frame
point_on_hull(h, hl, f, x, z) ==
    vector_from_frame(h, hl.frame,
                      point_in_datum(h, f, x, z)[1] - origin_in_datum(h, hl.frame)[1],
                      point_in_datum(h, f, x, z)[2] - origin_in_datum(h, hl.frame)[2],
                      DatumId)

\* the mass component add_foil(f, MassComponent(mass, -chord / 4, 0)) stores for
\* the frames of h
baked(h, hl, f, mass) ==
    MassComponent(mass, point_on_hull(h, hl, f, Quot(-f.chord, 4), 0)[1],
                  point_on_hull(h, hl, f, Quot(-f.chord, 4), 0)[2])

\* C14: add_foil(foil, m) stores the mass and the hull-frame position computed
\* from the foil's frame at that time, and no later set_location, resize,
\* structural_mass, set_state or solver run changes a stored mass component.
MassComponentIsBaked ==
    [][ /\ \A k \in 1..Len(analysis.mass_components) :
              /\ k <= Len(analysis'.mass_components)
              /\ analysis'.mass_components[k] = analysis.mass_components[k]
        /\ ret'.op = "add_foil"
              => analysis'.mass_components[Len(analysis'.mass_components)]
                     = baked(heap, hull, foils[ret'.args[1]], ret'.args[2]) ]_vars

\* a solver run has ended on an analysis whose foil is no longer where its mass
\* component was computed
FoilMovedSinceAdd ==
    /\ analysis.foils # <<>>
    /\ ret.op \in {"run_sink_vpp", "run_foil_aoa_vpp"}
    /\ analysis.mass_components[1]
           # baked(heap, hull, foils[analysis.foils[1]], analysis.mass_components[1][1])


-----------------------------------------------------------------------------
(* HydroFoil.py: forces near the surface *)

\* the foil of the last force_moment call
LastFoil == foils[ret.args[1]]

\* the wrench of the lift / drag model without the submersion factor, for the
\* foil of the last force_moment call
Unscaled ==
    foil_wrench(foil_force_moment_at(LastFoil, rotation_in_datum(heap, LastFoil.frame), 10,
                                     LastFoil.cd_skin_friction,
                                     dynamic_force(LastFoil, ret.args[2])))

\* origin z of that foil in Datum [cm]
LastFoilZ == origin_in_datum(heap, LastFoil.frame)[2]

\* C15: the force HydroFoil.force_moment returns equals the unscaled model's
\* force when the foil's origin is at least 0.1 m below the waterline, is zero
\* when the origin is at or above the waterline, and is the unscaled force
\* times 10 * depth for depths in between.
ForceScalesWithDepth ==
    ret.op = "HydroFoil.force_moment" =>
        /\ LastFoilZ <= -10 => /\ ret.val[1] = Unscaled[1]
                               /\ ret.val[2] = Unscaled[2]
        /\ LastFoilZ >= 0 => /\ ret.val[1] = 0
                             /\ ret.val[2] = 0
        /\ (LastFoilZ > -10 /\ LastFoilZ < 0)
              => /\ ret.val[1] = Quot(Unscaled[1] * (-LastFoilZ), 10)
                 /\ ret.val[2] = Quot(Unscaled[2] * (-LastFoilZ), 10)

\* force_moment was called on a foil at an angle of attack, less than 0.1 m deep
ForceNearSurface ==
    /\ ret.op = "HydroFoil.force_moment"
    /\ LastFoilZ > -10 /\ LastFoilZ < 0
    /\ LastFoil.angle_of_attack # 0
    /\ ret.val[1] # 0 /\ ret.val[2] # 0
    /\ ret.val[1] # Unscaled[1]


-----------------------------------------------------------------------------
(* HydroFoil.py: the cavitation check *)

\* the foil of the last cavitation_check call
CheckedFoil == foils[ret.args[1]]

\* the load density every foil stores is its vertical force over its area [Pa]
LoadDensityStored ==
    \A i \in 1..Len(foils) :
        foils[i].load_density_Pa = Quot(foils[i].fz_N * 100, foils[i].area_ref \div 100)

-----------------------------------------------------------------------------
(* Hull.py: displaced volume and buoyancy over the sink *)

\* the hull after set_state(sink, 0) and force_moment(speed): <<hull, outcome>>
ForceMomentAtSink(sink, cf, wave, speed) ==
    LET id == NewId(heap)
        h1 == [heap EXCEPT ![id] = Frame(DatumId, 0, sink, 0)]
    IN  hull_force_moment(hull_set_state(h1, hull, id), cf, wave, speed)

\* force_moment has run on the level hull at a sink <= 0, the draft within
\* the hull's height
ForceMomentAtLevelSink ==
    /\ ret.op = "Hull.force_moment"
    /\ rotation_in_datum(heap, hull.frame) = 0
    /\ origin_in_datum(heap, hull.frame)[2] <= 0
    /\ hull.draft <= hull.height

\* C17: at trim 0, for any two sinks s1 < s2 <= 0 whose drafts do not exceed
\* the hull height, the displaced volume and the buoyancy computed at s1 are
\* strictly greater than the ones computed at s2, on either side of the chine.
DeeperDisplacesMore ==
    ForceMomentAtLevelSink =>
        \A s1 \in Sinks, cf \in SchoenherrRoots, wave \in WaveResistances, speed \in Speeds :
            (s1 < origin_in_datum(heap, hull.frame)[2] /\ -s1 <= hull.height)
                => LET deeper == ForceMomentAtSink(s1, cf, wave, speed)
                   IN  /\ deeper[2].exc = "none"
                       /\ deeper[1].displaced_volume > hull.displaced_volume
                       /\ deeper[1].buoyancy_N > hull.buoyancy_N


-----------------------------------------------------------------------------
(* VPP.py: what a solver run depends on *)

\* the heap in which the hull's Frame object holds (0, sink, trim)
PriorHeap(sink, trim) == [heap EXCEPT ![hull.frame] = Frame(DatumId, 0, sink, trim)]

\* the hull whose last set_state was set_state(sink, trim)
PriorHull(sink, trim) == hull_set_state(PriorHeap(sink, trim), hull, hull.frame)

\* the heap in which the Frame object of the run's foil holds the rotation rot_y
TurnedHeap(rot_y) == [heap EXCEPT ![foils[vpp.foil].frame].rot_y = rot_y]

\* objective_sink(x, ...) called on the assembly with heap h and hull hl
SinkObjectiveIn(h, hl, x, wave) ==
    objective_sink(h, hl, foils, analysis, x, vpp.cf_hull, wave, vpp.cf_foil, vpp.speed)

IsSinkMinimumIn(h, hl, x) ==
    \A wave \in WaveResistances :
        \/ WithinTolerance(SinkObjectiveIn(h, hl, x, wave).val[1])
        \/ /\ x \in {sink_bounds[1], sink_bounds[2]}
           /\ \A y \in Neighbours(SinkGrid, x) :
                 SinkObjectiveIn(h, hl, x, wave).val[1] <= SinkObjectiveIn(h, hl, y, wave).val[1]

\* the outcomes run_sink_vpp can have on the assembly with heap h and hull hl
SinkOutcomesIn(h, hl) ==
    { run_sink_vpp([success |-> FALSE, x |-> x]) : x \in SinkGrid }
    \cup { run_sink_vpp([success |-> TRUE, x |-> x]) :
              x \in {y \in SinkGrid : IsSinkMinimumIn(h, hl, y)} }

\* objective_foil_aoa(x, ...) called on the run's foil, its Frame in heap h
AoaCostIn(h, x) ==
    objective_foil_aoa(h, foils[vpp.foil], x, vpp.cf_foil, vpp.speed, vpp.target).val[1]

IsAoaMinimumIn(h, x) ==
    \/ AoaCostIn(h, x) = 0
    \/ /\ x \in {aoa_bounds[1], aoa_bounds[2]}
       /\ \A y \in Neighbours(AoaGrid, x) : AoaCostIn(h, x) <= AoaCostIn(h, y)
    \/ \A y \in Neighbours(AoaGrid, x) : AoaCostIn(h, x) = AoaCostIn(h, y)

\* the outcomes run_foil_aoa_vpp can have on the run's foil, its Frame in heap h
AoaOutcomesIn(h) ==
    { run_foil_aoa_vpp([success |-> FALSE, x |-> x], AoaCostIn(h, x)) : x \in AoaGrid }
    \cup { run_foil_aoa_vpp([success |-> TRUE, x |-> x], AoaCostIn(h, x)) :
              x \in {y \in AoaGrid : IsAoaMinimumIn(h, y)} }

\* C18: the outcome of run_sink_vpp does not depend on the hull's sink and trim
\* before the call, and the outcome of run_foil_aoa_vpp does not depend on the
\* foil's rotation before the call: runs that differ only in that prior state
\* have the same outcomes.
OutcomeIgnoresPriorState ==
    /\ (vpp.pc = "sink" /\ vpp.trials = 0)
          => \A sink \in PriorSinks, trim \in Trims :
                SinkOutcomesIn(PriorHeap(sink, trim), PriorHull(sink, trim))
                    = SinkOutcomesIn(heap, hull)
    /\ (vpp.pc = "aoa" /\ vpp.trials = 0)
          => \A rot_y \in {-1, 0, 1} : AoaOutcomesIn(TurnedHeap(rot_y)) = AoaOutcomesIn(heap)


-----------------------------------------------------------------------------
(* Frame.py: the chain of reference frames *)

\* following ref_frame() from f reaches a Datum within n steps, through Frame
\* objects only
RECURSIVE ReachesDatum(_, _, _)
ReachesDatum(h, f, n) ==
    IF f = DatumId THEN TRUE
    ELSE IF n = 0 \/ f \notin 1..HeapSize THEN FALSE
    ELSE IF h[f] = FreeSlot THEN FALSE
    ELSE ReachesDatum(h, h[f].ref, n - 1)

\* C19: in every reachable state, following parent references from the hull's
\* frame or from any foil's frame reaches a Datum in finitely many steps (no
\* cycle, no frame without a parent), and the Datum reports origin (0, 0) and
\* rotation 0.
FramesReachDatum ==
    /\ \A f \in Roots(hull, foils) : ReachesDatum(heap, f, HeapSize)
    /\ origin_in_datum(heap, DatumId) = <<0, 0>>
    /\ rotation_in_datum(heap, DatumId) = 0

\* a foil was relocated on a frame the hull has since replaced: its chain of
\* references has two Frame objects before the Datum
FoilOnReplacedFrame ==
    /\ ret.op = "set_location"
    /\ LET f == foils[ret.args[1]].frame
       IN  /\ heap[f].ref # DatumId
           /\ heap[f].ref # hull.frame
           /\ heap[heap[f].ref].ref = DatumId


-----------------------------------------------------------------------------
(* Frame.py, Hull.py, HydroFoil.py: Frame objects are never modified *)

\* the Frame objects that exist in heap h
Instances(h) == {id \in 1..HeapSize : h[id] # FreeSlot}

\* no Frame object that exists before and after a step has changed
InstancesKept ==
    \A id \in Instances(heap) \cap Instances(heap') : heap'[id] = heap[id]

\* set_state has put the hull on a new Frame object
HullFrameReplaced ==
    ret'.op = "set_state" => hull'.frame \notin Instances(heap)

\* set_location(i, px, pz, ry) has put the foil on a new Frame object with the
\* parent of the one it replaces, and get_location() returns (px, pz, ry)
FoilFrameReplaced ==
    ret'.op = "set_location" =>
        LET i == ret'.args[1]
        IN  /\ foils'[i].frame \notin Instances(heap)
            /\ heap'[foils'[i].frame].ref = heap[foils[i].frame].ref
            /\ get_location(heap', foils'[i]) = <<ret'.args[2], ret'.args[3], ret'.args[4]>>

\* C20: no operation changes the position, rotation or parent of an existing
\* Frame instance: Hull.set_state and HydroFoil.set_location replace the
\* owner's frame by a new instance, and set_location(px, pz, ry) gives the new
\* frame the parent of the frame it replaces, so that get_location() then
\* returns (px, pz, ry).
FramesAreReplaced == [][InstancesKept /\ HullFrameReplaced /\ FoilFrameReplaced]_vars

\* a foil mounted level and 0.5 m under the hull's origin was turned and moved
\* to the surface by set_location, after the hull was set: its frame keeps the
\* parent the hull no longer holds
FoilRelocatedOnOldParent ==
    /\ ret.op = "set_location"
    /\ <<ret.args[3], ret.args[4]>> = <<100, -1>>
    /\ get_location(heap, foils[ret.args[1]]) = <<ret.args[2], 100, -1>>
    /\ heap[foils[ret.args[1]].frame].ref \in Instances(heap) \ {hull.frame}


-----------------------------------------------------------------------------
(* HydroAnalysis.py: the net wrench *)

\* the vector (x, z) of a frame turned by rot_y against the hull, in hull coordinates
TurnedIntoHull(x, z, rot_y) ==
    <<x * Cos(-rot_y) - z * Sin(-rot_y), x * Sin(-rot_y) + z * Cos(-rot_y)>>

\* the rotation of the hull's frame in Datum
HullTrim == rotation_in_datum(heap, hull.frame)

\* the wrench the foil of entry k of the assembly holds, its force in hull coordinates
FoilTerm(k) ==
    LET f == foils[analysis.foils[k]]
        v == TurnedIntoHull(f.fx_N, f.fz_N, rotation_in_datum(heap, f.frame) - HullTrim)
    IN  ForceMoment(v[1], v[2], f.my_Nm)

RECURSIVE SumFoilTerms(_)
SumFoilTerms(k) ==
    IF k = 0 THEN ForceMoment(0, 0, 0)
    ELSE add(SumFoilTerms(k - 1), FoilTerm(k))

\* (0, -g * total mass) of Datum in hull coordinates
GravityTerm ==
    LET v == TurnedIntoHull(0, -TimesGravity(SumMass(analysis.mass_components)), -HullTrim)
    IN  ForceMoment(v[1], v[2], 0)

\* C21: force_moment_body(speed) returns the sum of the gravity wrench (0, -g
\* times the sum of all component masses, rotated from Datum into the hull
\* frame), the hull's wrench and, once per add_foil call, that foil's wrench
\* with its force rotated into the hull frame; its moment is the sum of the
\* foils' moments.
BodyWrenchIsSum ==
    (ret.op = "force_moment_body" /\ ret.exc = "none")
        => /\ ret.val = add(add(GravityTerm, ForceMoment(-hull.drag_N, hull.buoyancy_N, 0)),
                            SumFoilTerms(Len(analysis.foils)))
           /\ ret.val[3] = SumFoilTerms(Len(analysis.foils))[3]
           /\ Len(analysis.mass_components) >= Len(analysis.foils)

\* the net wrench of a trimmed hull that carries a loaded foil, added twice,
\* turned against the hull
BodyWrenchWithFoilTwice ==
    /\ ret.op = "force_moment_body" /\ ret.exc = "none"
    /\ Len(analysis.foils) = 2
    /\ HullTrim # 0
    /\ foils[1].fz_N # 0
    /\ rotation_in_datum(heap, foils[1].frame) # HullTrim
    /\ ret.val[3] = 2 * foils[1].my_Nm /\ ret.val[3] # 0


\* the vector (x, z) of hull coordinates in Datum coordinates
HullIntoDatum(x, z) ==
    <<x * Cos(HullTrim) + z * Sin(HullTrim), (-x) * Sin(HullTrim) + z * Cos(HullTrim)>>

\* the hull's and the foils' part of the body wrench
CarriedWrench ==
    add(ForceMoment(-hull.drag_N, hull.buoyancy_N, 0), SumFoilTerms(Len(analysis.foils)))

\* the wrench force_moment_body returns in the state
BodyWrench == add(GravityTerm, CarriedWrench)

\* C22: force_moment_waterplane(speed) has the moment of force_moment_body(speed)
\* and its force is the body force rotated by the hull's trim into Datum: the
\* gravity part of the waterplane force is exactly (0, -g * total mass) for
\* every trim, and at trim 0 the waterplane force equals the body force.
WaterplaneIsRotatedBody ==
    (ret.op = "force_moment_waterplane" /\ ret.exc = "none")
        => /\ ret.val[3] = BodyWrench[3]
           /\ <<ret.val[1], ret.val[2]>> = HullIntoDatum(BodyWrench[1], BodyWrench[2])
           /\ ret.val[1] - HullIntoDatum(CarriedWrench[1], CarriedWrench[2])[1] = 0
           /\ ret.val[2] - HullIntoDatum(CarriedWrench[1], CarriedWrench[2])[2]
                  = -TimesGravity(SumMass(analysis.mass_components))
           /\ HullTrim = 0 => ret.val = BodyWrench

\* the net wrench in Datum of a trimmed hull that carries masses
WaterplaneOfTrimmedHull ==
    /\ ret.op = "force_moment_waterplane" /\ ret.exc = "none"
    /\ HullTrim # 0
    /\ SumMass(analysis.mass_components) > 0
    /\ BodyWrench[1] # ret.val[1]


-----------------------------------------------------------------------------
(* HydroFoil.py, VPP.py: lift and drag in the returned force *)

\* the foil of the angle-of-attack run
RunFoil == foils[vpp.foil]

\* objective_foil_aoa(a) has just run on a foil whose parent chain is not
\* rotated in Datum; the foil's own rotation is then -a
ObjectiveOnLevelParent ==
    /\ ret.op = "objective_foil_aoa"
    /\ rotation_in_datum(heap, heap[RunFoil.frame].ref) = 0

\* C23: for a foil whose parent chain has zero rotation in Datum and whose own
\* rotation is -a, the force force_moment returns, rotated from the foil frame
\* into Datum, is (-drag, lift), and the objective's projected lift
\* fx * sin(a) + fz * cos(a) is the foil's submersion-scaled lift, without
\* any drag.
ProjectedLiftIsLift ==
    ObjectiveOnLevelParent
        => /\ heap[RunFoil.frame].rot_y = -ret.args[1]
           /\ vector_to_frame(heap, RunFoil.frame, RunFoil.fx_N, RunFoil.fz_N, DatumId)
                  = <<-RunFoil.drag_N, RunFoil.lift_N>>
           /\ RunFoil.fx_N * Sin(ret.args[1]) + RunFoil.fz_N * Cos(ret.args[1])
                  = RunFoil.lift_N
           /\ ret.val[1] = Abs(RunFoil.lift_N - vpp.target)

\* the objective ran at a quarter turn on a submerged foil: lift and drag are
\* both non-zero and differ
ObjectiveAtQuarterTurn ==
    /\ ObjectiveOnLevelParent
    /\ ret.args[1] = 1
    /\ RunFoil.lift_N # 0 /\ RunFoil.drag_N # 0
    /\ RunFoil.lift_N # RunFoil.drag_N


-----------------------------------------------------------------------------
(* Hull.py, HydroFoil.py, HydroAnalysis.py: what a force query changes *)

QueryOps ==
    {"Hull.force_moment", "HydroFoil.force_moment", "force_moment_body",
     "force_moment_waterplane"}

\* what the hull query returns or raises for hull object hl
HullAnswer(hl, cf, wave) == hull_force_moment(hl, cf, wave, 10)[2]

\* what the query of foil f returns
FoilAnswer(f, cf) == foil_wrench(foil_force_moment(heap, f, cf, 10))

\* what the two queries of the assembly return or raise for objects hl, fs
BodyAnswer(hl, fs, cf_hull, wave, cf_foil) ==
    LET b == force_moment_body(heap, hl, fs, analysis, cf_hull, wave, cf_foil, 10)
        w == force_moment_waterplane(heap, hl, fs, analysis, cf_hull, wave, cf_foil, 10)
    IN  <<b.exc, b.val, w.exc, w.val>>

\* every query answers after the step as it would have before it
SameAnswers ==
    \A cf_hull \in SchoenherrRoots, wave \in WaveResistances, cf_foil \in SchoenherrRoots :
        /\ HullAnswer(hull', cf_hull, wave) = HullAnswer(hull, cf_hull, wave)
        /\ \A i \in 1..Len(foils) : FoilAnswer(foils'[i], cf_foil) = FoilAnswer(foils[i], cf_foil)
        /\ BodyAnswer(hull', foils', cf_hull, wave, cf_foil)
               = BodyAnswer(hull, foils, cf_hull, wave, cf_foil)

\* the objects' geometry and the assembly's lists are as before the step
GeometryKept ==
    /\ heap' = heap
    /\ hull'.frame = hull.frame /\ hull'.draft = hull.draft
    /\ Len(foils') = Len(foils)
    /\ \A i \in 1..Len(foils) : /\ foils'[i].frame = foils[i].frame
                                /\ foils'[i].span = foils[i].span
                                /\ foils'[i].chord = foils[i].chord
    /\ analysis' = analysis

\* C24: Hull.force_moment, HydroFoil.force_moment, force_moment_body and
\* force_moment_waterplane leave the hull's frame and draft, every foil's frame,
\* span and chord and the assembly's lists unchanged; they overwrite cached
\* quantities only, so a query repeated in the same state returns the same.
QueriesKeepState == [][ret'.op \in QueryOps => GeometryKept /\ SameAnswers]_vars

\* a foil was queried after a query of the trimmed assembly had filled the
\* caches of the hull and of the foil
FoilQueriedAfterBody ==
    /\ ret.op = "HydroFoil.force_moment"
    /\ analysis.foils # <<>>
    /\ HullTrim # 0
    /\ hull.buoyancy_N # 0 /\ hull.drag_N # 0
    /\ foils[ret.args[1]].drag_N # 0


-----------------------------------------------------------------------------
(* HydroFoil.py: resize *)

\* the foil the last resize was called on, after and before the step
ResizedFoil == foils'[ret'.args[3]]

FoilBeforeResize == foils[ret'.args[3]]

RejectedResize ==
    /\ ret'.exc = "ValueError"
    /\ ResizedFoil.span = FoilBeforeResize.span
    /\ ResizedFoil.chord = FoilBeforeResize.chord
    /\ ResizedFoil.thickness_ratio = FoilBeforeResize.thickness_ratio
    /\ ResizedFoil.area_ref = FoilBeforeResize.area_ref
    /\ ResizedFoil.aspect_ratio = FoilBeforeResize.aspect_ratio
    /\ ResizedFoil.aspect_ratio_effective = FoilBeforeResize.aspect_ratio_effective

AcceptedResize ==
    /\ ret'.exc = "none"
    /\ ResizedFoil.span = ret'.args[1]
    /\ ResizedFoil.chord = ret'.args[2]
    /\ ResizedFoil.area_ref = ret'.args[1] * ret'.args[2]
    /\ ResizedFoil.aspect_ratio = Quot(ret'.args[1] * ret'.args[1] * 100, ResizedFoil.area_ref)
    /\ ResizedFoil.aspect_ratio_effective
           = Quot(ResizedFoil.aspect_ratio * ResizedFoil.end_plate_factor, 10)

\* C25: resize with span <= 0 or chord <= 0 raises ValueError and leaves span,
\* chord, thickness ratio and the derived geometry as they were; after a
\* successful resize the reference area is span * chord, the aspect ratio is
\* span^2 / area and the effective aspect ratio is the aspect ratio times the
\* foil's end plate factor.
ResizeValidatesFirst ==
    [][ret'.op = "resize" =>
          IF ret'.args[1] <= 0 \/ ret'.args[2] <= 0 THEN RejectedResize
          ELSE AcceptedResize]_vars

\* a resize with a good span and a bad chord was rejected on a foil that an
\* earlier resize had changed
ResizeRejectedForChord ==
    /\ ret.op = "resize" /\ ret.exc = "ValueError"
    /\ ret.args[1] > 0 /\ ret.args[1] # foils[ret.args[3]].span
    /\ foils[ret.args[3]].thickness_ratio = 20
    /\ foils[ret.args[3]].area_ref > 0


-----------------------------------------------------------------------------
(* Logger.py *)

\* the groups of a logger and the channels of each
Registered(lg) ==
    {<<lg.log_groups[k].key, c>> : k \in DOMAIN lg.log_groups, c \in {None}}
        \cup UNION {{<<lg.log_groups[k].key, a>> : a \in Keys(lg.log_groups[k].val.channels)} :
                        k \in DOMAIN lg.log_groups}

AddOps == {"add_group", "add_group2", "add_channel_to_group"}

\* C26: once logging has started (run() or log_all() was called), add_group,
\* add_group2 and add_channel_to_group add no group and no channel.
RunningLoggerIsClosed ==
    [][logger.running /\ ret'.op \in AddOps => Registered(logger') = Registered(logger)]_vars

\* C30: when add_channel_to_group raises KeyError, the group's alias map and
\* channels are as before the call.
RejectedChannelLeavesGroup ==
    [][ret'.op = "add_channel_to_group" /\ ret'.exc = "KeyError"
          => logger'.log_groups = logger.log_groups]_vars


-----------------------------------------------------------------------------
(* VPP.py: the state of the assembly after run_sink_vpp *)

\* C27: when run_sink_vpp returns sink s the hull is left in state
\* (sink = s, trim = 0): the last state the solver applied is the returned one.
HullLeftAtReturnedSink ==
    SinkReturned
        => /\ origin_in_datum(heap, hull.frame) = <<0, ret.val[1]>>
           /\ rotation_in_datum(heap, hull.frame) = 0


-----------------------------------------------------------------------------
(* Hull.py: the draft and the frame *)

\* C28: in every state of a Hull, the one after construction included, draft()
\* is max(0, -(z of the origin of the hull's frame in Datum)).
DraftFollowsFrame == hull.draft = Max(0, (-1) * origin_in_datum(heap, hull.frame)[2])


-----------------------------------------------------------------------------
(* HydroFoil.py: the moment of a foil at the water surface *)

\* C29: the moment HydroFoil.force_moment returns is scaled by the submersion
\* factor of the force: a foil with its origin at or above the waterline
\* returns zero moment along with zero force.
SurfacedFoilHasZeroWrench ==
    /\ ret.op = "HydroFoil.force_moment"
    /\ ret.exc = "none"
    /\ origin_in_datum(heap, foils[ret.args[1]].frame)[2] >= 0
    => ret.val = ForceMoment(0, 0, 0)

=============================================================================
